---- MODULE Spec2Model ----
(***************************************************************************)
(* GymIntel: rep counting, quality scoring, exercise -> muscle mapping,    *)
(* session aggregation and balance analysis.                               *)
(*                                                                         *)
(* Numbers.  Angles are whole degrees.  Activation weights are held in     *)
(* hundredths (0.95 is 95).  A quotient the code computes in floating      *)
(* point is held exactly, as a pair <<numerator, denominator>> in lowest   *)
(* terms.                                                                  *)
(***************************************************************************)
EXTENDS Integers, Sequences, FiniteSets, TLC

VARIABLES
    \* --- rep counting
    analyzer,           \* rep counter in use: "yolo" (YOLOPoseAnalyzer) or "mediapipe" (PoseAnalyzer)
    angle_history,      \* the angle series handed to _count_reps
    fps,                \* frames per second handed to _count_reps
    rep_result,         \* <<>> before the call, then <<[rep_count, rep_durations]>> as returned
    rep_loop,           \* None outside the loop of _count_reps, else Some([i, st, trace])
    \* --- muscle mapping, aggregation, balance
    exercises,          \* the session's exercises: [name, variation, pose_metrics, duration_sec, reps]
    activations,        \* MuscleMapper.get_activation of each exercise, in order
    workout_totals,     \* None, or Some(result of MuscleMapper.aggregate_workout)
    analysis,           \* None, or Some(result of MuscleMapper.analyze_balance)
    session_activation, \* None, or Some(result of calculate_session_activation)
    activation_history, \* the session vectors stored so far
    balance,            \* None, or Some(result of analyze_muscle_balance)
    \* --- pose analysis of one video segment
    segment,            \* what the capture yields: [frames, fps, exercise_name]
    segment_pc,         \* "captured" before YOLOPoseAnalyzer.analyze_segment returns, then "analyzed"
    metrics,            \* None, or Some(the PoseMetrics analyze_segment returned)
    \* --- process_workout_video: pose analysis of the detected segments in a pool
    video,              \* the inputs: [file_path, fps, detected] (detected: the exercises as detect_exercises returned them)
    pipeline_exercises, \* the ExerciseSegment objects of `exercises`
    futures,            \* per submitted segment: [state, raised, weight]
    pipeline_pc,        \* "detected", then "pool" (futures submitted), then "saving"
    muscle_activation   \* None, or Some(calculate_session_activation(exercise_summary))

repVars == <<analyzer, angle_history, fps, rep_result, rep_loop>>

muscleVars == <<exercises, activations, workout_totals, analysis,
                session_activation, activation_history, balance>>

segmentVars == <<segment, segment_pc, metrics>>

pipelineVars == <<video, pipeline_exercises, futures, pipeline_pc, muscle_activation>>

vars == <<analyzer, angle_history, fps, rep_result, rep_loop,
          exercises, activations, workout_totals, analysis,
          session_activation, activation_history, balance,
          segment, segment_pc, metrics,
          video, pipeline_exercises, futures, pipeline_pc, muscle_activation>>

(***************************************************************************)
(* Bounds of the model                                                     *)
(***************************************************************************)
MaxLen == 10        \* longest short angle series that is enumerated

MaxExercises == 3   \* most exercises in one session

MaxFrames == 16     \* most frames in one analysed segment

(***************************************************************************)
(* Exact quotients.  Frac(n, d) is n/d in lowest terms, d > 0.             *)
(***************************************************************************)
Abs(x) == IF x < 0 THEN -x ELSE x

RECURSIVE GCD(_, _)
GCD(a, b) == IF b = 0 THEN a ELSE GCD(b, a % b)

Frac(n, d) ==
    LET g == GCD(Abs(n), Abs(d))
        sgn == IF d < 0 THEN -1 ELSE 1
    IN  <<(sgn * n) \div g, (sgn * d) \div g>>

FZero == <<0, 1>>

FOne == <<1, 1>>

FAdd(a, b) ==
    LET g == GCD(a[2], b[2])
    IN  Frac(a[1] * (b[2] \div g) + b[1] * (a[2] \div g), (a[2] \div g) * b[2])

FSub(a, b) == FAdd(a, <<-b[1], b[2]>>)

FAbs(a) == <<Abs(a[1]), a[2]>>

FMul(a, b) == Frac(a[1] * b[1], a[2] * b[2])

\* a / b for b # 0
FDiv(a, b) ==
    LET g1 == GCD(Abs(a[1]), Abs(b[1]))
        g2 == GCD(a[2], b[2])
        h1 == IF g1 = 0 THEN 1 ELSE g1
    IN  Frac((a[1] \div h1) * (b[2] \div g2), (a[2] \div g2) * (b[1] \div h1))

\* a / k for an integer k > 0
FDivInt(a, k) == FDiv(a, <<k, 1>>)

FLess(a, b) == a[1] * b[2] < b[1] * a[2]

FLeq(a, b) == a[1] * b[2] <= b[1] * a[2]

FMin(a, b) == IF FLess(b, a) THEN b ELSE a

FMax(a, b) == IF FLess(a, b) THEN b ELSE a

\* The sum and the largest of the values f[k], k in the sequence keys.
RECURSIVE FSum(_, _)
FSum(f, keys) ==
    IF keys = <<>> THEN FZero ELSE FAdd(f[Head(keys)], FSum(f, Tail(keys)))

RECURSIVE FMaxOf(_, _)
FMaxOf(f, keys) ==
    IF Len(keys) = 1 THEN f[keys[1]] ELSE FMax(f[Head(keys)], FMaxOf(f, Tail(keys)))

InUnitInterval(a) == FLeq(FZero, a) /\ FLeq(a, FOne)

Range(s) == {s[i] : i \in 1..Len(s)}

(***************************************************************************)
(* Python strings.  A string is a TLA+ string; the only whitespace         *)
(* character in the model is the space.                                    *)
(***************************************************************************)
CharAt(s, i) == SubSeq(s, i, i)

UpperCase == "ABCDEFGHIJKLMNOPQRSTUVWXYZ"

LowerCase == "abcdefghijklmnopqrstuvwxyz"

LowerChar(c) ==
    LET hit == {i \in 1..Len(UpperCase) : CharAt(UpperCase, i) = c}
    IN  IF hit = {} THEN c ELSE CharAt(LowerCase, CHOOSE i \in hit : TRUE)

\* str.lower()
RECURSIVE Lower(_)
Lower(s) == IF s = "" THEN "" ELSE LowerChar(CharAt(s, 1)) \o Lower(Tail(s))

\* str.strip()
RECURSIVE LStrip(_)
LStrip(s) == IF s # "" /\ CharAt(s, 1) = " " THEN LStrip(Tail(s)) ELSE s

RECURSIVE RStrip(_)
RStrip(s) ==
    IF s # "" /\ CharAt(s, Len(s)) = " " THEN RStrip(SubSeq(s, 1, Len(s) - 1)) ELSE s

Strip(s) == RStrip(LStrip(s))

\* str.replace(old, new) for a one-character old
RECURSIVE Replace(_, _, _)
Replace(s, old, new) ==
    IF s = "" THEN ""
    ELSE (IF CharAt(s, 1) = old THEN new ELSE CharAt(s, 1)) \o Replace(Tail(s), old, new)

\* t in s
Contains(s, t) ==
    \E i \in 1..(Len(s) - Len(t) + 1) : SubSeq(s, i, i + Len(t) - 1) = t

\* set(s.split()): the maximal runs of non-space characters
RECURSIVE SplitFrom(_, _, _)
SplitFrom(s, i, word) ==
    IF i > Len(s) THEN (IF word = "" THEN {} ELSE {word})
    ELSE IF CharAt(s, i) = " "
         THEN (IF word = "" THEN {} ELSE {word}) \cup SplitFrom(s, i + 1, "")
         ELSE SplitFrom(s, i + 1, word \o CharAt(s, i))

SplitWords(s) == SplitFrom(s, 1, "")

(***************************************************************************)
(* Python dicts whose order does not matter are functions; None is <<>>    *)
(* and a present value v is <<v>>.                                         *)
(***************************************************************************)
None == <<>>

Some(v) == <<v>>

DictGet(d, k, default) == IF k \in DOMAIN d THEN d[k] ELSE default

DictSet(d, k, v) == [x \in (DOMAIN d) \cup {k} |-> IF x = k THEN v ELSE d[x]]

EmptyDict == [x \in {} |-> 0]

(***************************************************************************)
(* Generic helpers                                                         *)
(***************************************************************************)
SeqMin(s) == CHOOSE m \in {s[i] : i \in 1..Len(s)} : \A j \in 1..Len(s) : m <= s[j]

SeqMax(s) == CHOOSE m \in {s[i] : i \in 1..Len(s)} : \A j \in 1..Len(s) : m >= s[j]

(***************************************************************************)
(* Rep counting: pose_service_yolo.py and pose_service.py                  *)
(***************************************************************************)
MIN_SAMPLES == 10            \* len(angle_history) < 10

FLAT_RANGE == 20             \* sig_max - sig_min < 20

THRESHOLD_HIGH_TENTHS == 7   \* threshold_high = 0.7

THRESHOLD_LOW_TENTHS == 3    \* threshold_low = 0.3

\* normalized = (signal - sig_min) / (sig_max - sig_min); val > threshold_high
AboveHigh(v, sig_min, sig_max) ==
    10 * (v - sig_min) > THRESHOLD_HIGH_TENTHS * (sig_max - sig_min)

\* A variant of the low test with the threshold at 0.5.
BelowHalf(v, sig_min, sig_max) == 10 * (v - sig_min) < 5 * (sig_max - sig_min)

\* val < threshold_low
BelowLow(v, sig_min, sig_max) ==
    10 * (v - sig_min) < THRESHOLD_LOW_TENTHS * (sig_max - sig_min)

\* A variant of YOLOPoseAnalyzer._count_reps without any cooldown.
YoloNoCooldown(f) == 0

\* min_frames = int(fps * min_rep_duration), min_rep_duration = 1.0
YoloMinFrames(f) == f

\* A variant of the cooldown of PoseAnalyzer that lasts 3 s.
MediapipeLongCooldown(f) == 3 * f

\* min_rep_frames = int(fps * 1.5)
MediapipeMinFrames(f) == (3 * f) \div 2

\* The loop variables of YOLOPoseAnalyzer._count_reps before the first sample.
YoloStart ==
    [reps |-> 0, rep_durations |-> <<>>, in_rep |-> FALSE,
     rep_start_frame |-> 0, cooldown |-> 0]

\* One iteration of the loop of YOLOPoseAnalyzer._count_reps on sample i
\* (0-based) of value v.  A duration (i - rep_start_frame) / fps is held as
\* <<i - rep_start_frame, fps>>.
YoloStep(st, i, v, sig_min, sig_max, f) ==
    IF st.cooldown > 0
    THEN [st EXCEPT !.cooldown = st.cooldown - 1]
    ELSE IF AboveHigh(v, sig_min, sig_max) /\ ~st.in_rep
    THEN [reps |-> st.reps + 1,
          in_rep |-> TRUE,
          rep_durations |->
              IF st.rep_start_frame > 0
              THEN Append(st.rep_durations, <<i - st.rep_start_frame, f>>)
              ELSE st.rep_durations,
          rep_start_frame |-> i,
          cooldown |-> YoloMinFrames(f)]
    ELSE IF BelowLow(v, sig_min, sig_max)
    THEN [st EXCEPT !.in_rep = FALSE]
    ELSE st

\* The loop variables of PoseAnalyzer._count_reps before the first sample.
MediapipeStart == [reps |-> 0, in_rep |-> FALSE, cooldown |-> 0]

\* One iteration of the loop of PoseAnalyzer._count_reps.
MediapipeStep(st, i, v, sig_min, sig_max, f) ==
    LET counted == AboveHigh(v, sig_min, sig_max) /\ ~st.in_rep /\ st.cooldown = 0
        s1 == IF counted
              THEN [reps |-> st.reps + 1, in_rep |-> TRUE,
                    cooldown |-> MediapipeMinFrames(f)]
              ELSE IF BelowLow(v, sig_min, sig_max)
              THEN [st EXCEPT !.in_rep = FALSE]
              ELSE st
    IN  IF s1.cooldown > 0 THEN [s1 EXCEPT !.cooldown = s1.cooldown - 1] ELSE s1

\* for i, val in enumerate(normalized): the loop over samples lo..hi (0-based).
\* The range is split in halves and the first half's result is bound as a
\* value before the second half runs, so a long series needs no deep nesting.
RECURSIVE YoloLoop(_, _, _, _, _, _, _)
YoloLoop(st, s, lo, hi, sig_min, sig_max, f) ==
    IF lo > hi THEN st
    ELSE IF lo = hi THEN YoloStep(st, lo, s[lo + 1], sig_min, sig_max, f)
    ELSE LET mid == (lo + hi) \div 2
         IN  CHOOSE r \in { YoloLoop(left, s, mid + 1, hi, sig_min, sig_max, f) :
                            left \in {YoloLoop(st, s, lo, mid, sig_min, sig_max, f)} } : TRUE

RECURSIVE MediapipeLoop(_, _, _, _, _, _, _)
MediapipeLoop(st, s, lo, hi, sig_min, sig_max, f) ==
    IF lo > hi THEN st
    ELSE IF lo = hi THEN MediapipeStep(st, lo, s[lo + 1], sig_min, sig_max, f)
    ELSE LET mid == (lo + hi) \div 2
         IN  CHOOSE r \in { MediapipeLoop(left, s, mid + 1, hi, sig_min, sig_max, f) :
                            left \in {MediapipeLoop(st, s, lo, mid, sig_min, sig_max, f)} } : TRUE

\* A variant of the flat-signal test with the limit at 15 degrees.
SignalTooFlatBelow15(sig_min, sig_max, unit) == sig_max - sig_min < 15 * unit

\* if sig_max - sig_min < 20: the signal is too flat.  The samples are held
\* in 1/unit degrees.
SignalTooFlat(sig_min, sig_max, unit) == sig_max - sig_min < FLAT_RANGE * unit

\* if len(angle_history) < 10: return 0, []
YoloTooShort(s) == Len(s) < MIN_SAMPLES

\* YOLOPoseAnalyzer._count_reps: (rep_count, rep_durations), for a series
\* whose samples are held in 1/unit degrees
YoloCountRepsIn(s, unit, f) ==
    IF YoloTooShort(s) THEN [rep_count |-> 0, rep_durations |-> <<>>]
    ELSE LET sig_min == SeqMin(s)
             sig_max == SeqMax(s)
         IN  IF SignalTooFlat(sig_min, sig_max, unit)
             THEN [rep_count |-> 0, rep_durations |-> <<>>]
             ELSE LET st == YoloLoop(YoloStart, s, 0, Len(s) - 1, sig_min, sig_max, f)
                  IN  [rep_count |-> st.reps, rep_durations |-> st.rep_durations]

\* YOLOPoseAnalyzer._count_reps on a series of whole degrees
YoloCountReps(s, f) == YoloCountRepsIn(s, 1, f)

\* if not signal: return 0
MediapipeTooShort(s) == Len(s) = 0

\* PoseAnalyzer._count_reps: the rep count (no durations are returned), for a
\* series whose samples are held in 1/unit degrees
MediapipeCountRepsIn(s, unit, f) ==
    IF MediapipeTooShort(s) THEN [rep_count |-> 0, rep_durations |-> <<>>]
    ELSE LET sig_min == SeqMin(s)
             sig_max == SeqMax(s)
         IN  IF SignalTooFlat(sig_min, sig_max, unit)
             THEN [rep_count |-> 0, rep_durations |-> <<>>]
             ELSE LET st == MediapipeLoop(MediapipeStart, s, 0, Len(s) - 1,
                                          sig_min, sig_max, f)
                  IN  [rep_count |-> st.reps, rep_durations |-> <<>>]

\* PoseAnalyzer._count_reps on a series of whole degrees
MediapipeCountReps(s, f) == MediapipeCountRepsIn(s, 1, f)

CountReps(a, s, f) ==
    IF a = "yolo" THEN YoloCountReps(s, f) ELSE MediapipeCountReps(s, f)

(***************************************************************************)
(* Pose analysis of one segment: YOLOPoseAnalyzer.analyze_segment          *)
(* (pose_service_yolo.py).  A frame is the dict of joint angles that       *)
(* _extract_angles_from_keypoints returns for it: a function from the      *)
(* detected joints to their angle; a frame without a person, or without a  *)
(* confident joint, is the empty function.                                 *)
(***************************************************************************)
\* JOINT_ANGLES (the keys, in order)
JOINT_ANGLES ==
    <<"left_elbow", "right_elbow", "left_shoulder", "right_shoulder",
      "left_hip", "right_hip", "left_knee", "right_knee">>

\* str.replace(old, new) for any old # ""
RECURSIVE ReplaceAll(_, _, _)
ReplaceAll(s, old, new) ==
    IF Len(s) < Len(old) THEN s
    ELSE IF SubSeq(s, 1, Len(old)) = old
         THEN new \o ReplaceAll(SubSeq(s, Len(old) + 1, Len(s)), old, new)
         ELSE CharAt(s, 1) \o ReplaceAll(Tail(s), old, new)

\* _process_batch: angles_history[name] after all frames
RECURSIVE JointHistory(_, _)
JointHistory(frames, name) ==
    IF frames = <<>> THEN <<>>
    ELSE (IF name \in DOMAIN Head(frames) THEN <<Head(frames)[name]>> ELSE <<>>)
             \o JointHistory(Tail(frames), name)

AnglesHistory(frames) == [name \in Range(JOINT_ANGLES) |-> JointHistory(frames, name)]

\* sum(angles.values())
RECURSIVE AngleSum(_, _)
AngleSum(angles, keys) ==
    IF keys = <<>> THEN 0
    ELSE (IF Head(keys) \in DOMAIN angles THEN angles[Head(keys)] ELSE 0)
             + AngleSum(angles, Tail(keys))

\* np.mean(list(angles.values()))
FrameMean(angles) == Frac(AngleSum(angles, JOINT_ANGLES), Cardinality(DOMAIN angles))

\* _process_batch: movement_proxy after all frames
RECURSIVE MovementProxy(_)
MovementProxy(frames) ==
    IF frames = <<>> THEN <<>>
    ELSE (IF DOMAIN Head(frames) # {} THEN <<FrameMean(Head(frames))>> ELSE <<>>)
             \o MovementProxy(Tail(frames))

\* The least common multiple of 1..n: every mean of up to n whole angles is a
\* whole number of 1/LCMUpTo(n) degrees.
RECURSIVE LCMUpTo(_)
LCMUpTo(n) == IF n <= 1 THEN 1 ELSE (LCMUpTo(n - 1) * n) \div GCD(LCMUpTo(n - 1), n)

ProxyUnit == LCMUpTo(Len(JOINT_ANGLES))

\* A series of quotients as whole numbers of 1/unit
InUnits(series, unit) == [i \in 1..Len(series) |-> series[i][1] * (unit \div series[i][2])]

\* sum(v) and np.mean(v) of a series of whole degrees
RECURSIVE SeqSum(_)
SeqSum(v) == IF v = <<>> THEN 0 ELSE Head(v) + SeqSum(Tail(v))

Mean(v) == Frac(SeqSum(v), Len(v))

\* min(v) if v else 180.0
MinAngles(angles_history) ==
    [k \in DOMAIN angles_history |->
        IF angles_history[k] # <<>> THEN SeqMin(angles_history[k]) ELSE 180]

\* max(v) if v else 0.0
MaxAngles(angles_history) ==
    [k \in DOMAIN angles_history |->
        IF angles_history[k] # <<>> THEN SeqMax(angles_history[k]) ELSE 0]

\* np.mean(v) if v else 0.0
AvgAngles(angles_history) ==
    [k \in DOMAIN angles_history |->
        IF angles_history[k] # <<>> THEN Mean(angles_history[k]) ELSE FZero]

\* The left keys of the symmetry loop, in order
SYMMETRY_LEFT_KEYS == <<"left_elbow", "left_knee", "left_shoulder", "left_hip">>

\* The loop that fills symmetry_diffs, over the left keys from index i on
RECURSIVE SymmetryLoop(_, _, _)
SymmetryLoop(symmetry_diffs, angles_history, i) ==
    IF i > Len(SYMMETRY_LEFT_KEYS) THEN symmetry_diffs
    ELSE LET left_key == SYMMETRY_LEFT_KEYS[i]
             right_key == ReplaceAll(left_key, "left_", "right_")
         IN  IF angles_history[left_key] # <<>> /\ angles_history[right_key] # <<>>
             THEN SymmetryLoop(
                      DictSet(symmetry_diffs, ReplaceAll(left_key, "left_", ""),
                              FAbs(FSub(Mean(angles_history[left_key]),
                                        Mean(angles_history[right_key])))),
                      angles_history, i + 1)
             ELSE SymmetryLoop(symmetry_diffs, angles_history, i + 1)

SymmetryDiffs(angles_history) == SymmetryLoop(EmptyDict, angles_history, 1)

\* The keys of symmetry_diffs, in insertion order
DiffKeys(symmetry_diffs) ==
    SelectSeq(<<"elbow", "knee", "shoulder", "hip">>, LAMBDA k : k \in DOMAIN symmetry_diffs)

\* A variant of the symmetry score without the floor at 0.
SymmetryScoreUnfloored(avg_diff) == FSub(FOne, FDiv(avg_diff, <<30, 1>>))

\* max(0, 1 - (avg_diff / 30))
SymmetryScoreOf(avg_diff) == FMax(FZero, FSub(FOne, FDiv(avg_diff, <<30, 1>>)))

\* symmetry_score
SymmetryScore(symmetry_diffs) ==
    IF DOMAIN symmetry_diffs # {}
    THEN SymmetryScoreOf(FDivInt(FSum(symmetry_diffs, DiffKeys(symmetry_diffs)),
                                 Cardinality(DOMAIN symmetry_diffs)))
    ELSE FOne

\* a or b, for two lists
ListOr(a, b) == IF a # <<>> THEN a ELSE b

\* primary_signal, as [series, unit]: the samples in 1/unit degrees
PrimarySignal(angles_history, movement_proxy, exercise_lower) ==
    IF Contains(exercise_lower, "squat") \/ Contains(exercise_lower, "lunge")
    THEN [series |-> ListOr(angles_history["left_knee"], angles_history["right_knee"]),
          unit |-> 1]
    ELSE IF Contains(exercise_lower, "press") \/ Contains(exercise_lower, "curl")
    THEN [series |-> ListOr(angles_history["left_elbow"], angles_history["right_elbow"]),
          unit |-> 1]
    ELSE [series |-> InUnits(movement_proxy, ProxyUnit), unit |-> ProxyUnit]

\* self._count_reps(primary_signal, fps)
CountPrimary(signal, f) == YoloCountRepsIn(signal.series, signal.unit, f)

\* np.mean(rep_durations)
RECURSIVE FSeqSum(_)
FSeqSum(v) == IF v = <<>> THEN FZero ELSE FAdd(Head(v), FSeqSum(Tail(v)))

FMean(v) == FDivInt(FSeqSum(v), Len(v))

\* np.std(rep_durations) ** 2
RECURSIVE SquaredDeviations(_, _)
SquaredDeviations(v, mean) ==
    IF v = <<>> THEN FZero
    ELSE FAdd(FMul(FSub(Head(v), mean), FSub(Head(v), mean)),
              SquaredDeviations(Tail(v), mean))

Variance(v) == FDivInt(SquaredDeviations(v, FMean(v)), Len(v))

\* tempo_consistency is max(0, min(1, 1 - std / (mean + 1e-8))), or 1.0 for
\* fewer than two durations.  It is held by c = (std / mean)^2, which is
\* exact: the value is max(0, 1 - sqrt(c)), to within 1e-8.
TempoSpreadSq(rep_durations) ==
    IF Len(rep_durations) > 1
    THEN FDiv(Variance(rep_durations), FMul(FMean(rep_durations), FMean(rep_durations)))
    ELSE FZero

\* tempo_consistency > 0.8: std / (mean + 1e-8) < 0.2, which holds also at
\* std = 0.2 * mean
TempoAbove08(spread_sq) == FLeq(spread_sq, <<1, 25>>)

\* tempo_consistency < 0.5: std / (mean + 1e-8) > 0.5
TempoBelow05(spread_sq) == FLess(<<1, 4>>, spread_sq)

\* (min_angles.get('left_knee', 180) + min_angles.get('right_knee', 180)) / 2
AvgKneeMin(min_angles) ==
    Frac(DictGet(min_angles, "left_knee", 180) + DictGet(min_angles, "right_knee", 180), 2)

\* (max_angles.get('left_elbow', 0) + max_angles.get('right_elbow', 0)) / 2
AvgElbowMax(max_angles) ==
    Frac(DictGet(max_angles, "left_elbow", 0) + DictGet(max_angles, "right_elbow", 0), 2)

\* (min_angles.get('left_hip', 180) + min_angles.get('right_hip', 180)) / 2
AvgHipMin(min_angles) ==
    Frac(DictGet(min_angles, "left_hip", 180) + DictGet(min_angles, "right_hip", 180), 2)

\* f"{x:.0f}" for x >= 0: the nearest whole number, a tie going to the even one
Format0f(x) ==
    LET q == x[1] \div x[2]
        twice_rest == 2 * (x[1] % x[2])
    IN  ToString(IF twice_rest < x[2] THEN q
                 ELSE IF twice_rest > x[2] THEN q + 1
                 ELSE IF q % 2 = 0 THEN q ELSE q + 1)

\* _generate_feedback: depth feedback
DepthFeedback(exercise_lower, avg_knee_min) ==
    IF Contains(exercise_lower, "squat") \/ Contains(exercise_lower, "lunge")
    THEN IF FLess(avg_knee_min, <<80, 1>>) THEN <<"Excellent depth - below parallel!">>
         ELSE IF FLess(avg_knee_min, <<95, 1>>) THEN <<"Good depth - roughly at parallel.">>
         ELSE IF FLess(avg_knee_min, <<110, 1>>)
         THEN <<"Depth is slightly shallow. Try to get lower for full ROM.">>
         ELSE <<"Depth is shallow (knees not bending past 110 deg). Focus on mobility.">>
    ELSE <<>>

\* _generate_feedback: extension feedback
ExtensionFeedback(exercise_lower, avg_elbow_max) ==
    IF \/ Contains(exercise_lower, "press")
       \/ Contains(exercise_lower, "curl")
       \/ Contains(exercise_lower, "pull")
    THEN IF FLess(<<165, 1>>, avg_elbow_max) THEN <<"Full arm extension achieved.">>
         ELSE IF FLess(<<150, 1>>, avg_elbow_max)
         THEN <<"Good extension, could lock out a bit more.">>
         ELSE <<"Arms not fully extending (max " \o Format0f(avg_elbow_max)
                    \o " deg). Focus on full ROM.">>
    ELSE <<>>

\* The left keys of the symmetry feedback loop, in order
FEEDBACK_LEFT_KEYS == <<"left_elbow", "left_knee", "left_shoulder">>

\* _generate_feedback: one iteration of the symmetry feedback loop
AsymmetryFeedback(symmetry_diffs, left) ==
    IF left \in DOMAIN symmetry_diffs
    THEN LET diff == DictGet(symmetry_diffs, ReplaceAll(left, "left_", ""), FZero)
         IN  IF FLess(<<15, 1>>, diff)
             THEN <<"Asymmetry detected in "
                        \o ReplaceAll(ReplaceAll(left, "left_", ""), "_", " ")
                        \o " movement (" \o Format0f(diff) \o " deg difference).">>
             ELSE <<>>
    ELSE <<>>

\* _generate_feedback: hip hinge feedback
HipHingeFeedback(exercise_lower, avg_hip_min) ==
    IF Contains(exercise_lower, "deadlift")
    THEN IF FLess(avg_hip_min, <<60, 1>>) THEN <<"Good hip hinge depth.">>
         ELSE <<"Focus on hinging more at the hips.">>
    ELSE <<>>

\* if not feedback: feedback.append("Form looks good! Keep it up.")
OrFormLooksGood(feedback) ==
    IF feedback = <<>> THEN <<"Form looks good! Keep it up.">> ELSE feedback

\* YOLOPoseAnalyzer._generate_feedback.  The degree sign of the messages is
\* written " deg".  The lookup of EXERCISE_STANDARDS at its start sets a local
\* that is not read afterwards.
generate_feedback(exercise_name, min_angles, max_angles, avg_angles, symmetry_diffs) ==
    OrFormLooksGood(
        DepthFeedback(Lower(exercise_name), AvgKneeMin(min_angles))
        \o ExtensionFeedback(Lower(exercise_name), AvgElbowMax(max_angles))
        \o AsymmetryFeedback(symmetry_diffs, FEEDBACK_LEFT_KEYS[1])
        \o AsymmetryFeedback(symmetry_diffs, FEEDBACK_LEFT_KEYS[2])
        \o AsymmetryFeedback(symmetry_diffs, FEEDBACK_LEFT_KEYS[3])
        \o HipHingeFeedback(Lower(exercise_name), AvgHipMin(min_angles)))

\* _calculate_quality_score: knee depth bonus, in hundredths
KneeDepthDelta(exercise_lower, avg_knee_min) ==
    IF Contains(exercise_lower, "squat") \/ Contains(exercise_lower, "lunge")
    THEN IF FLess(avg_knee_min, <<80, 1>>) THEN 20
         ELSE IF FLess(avg_knee_min, <<95, 1>>) THEN 10
         ELSE IF FLess(<<115, 1>>, avg_knee_min) THEN -20
         ELSE 0
    ELSE 0

\* _calculate_quality_score: elbow extension bonus, in hundredths
ElbowExtensionDelta(exercise_lower, avg_elbow_max) ==
    IF Contains(exercise_lower, "press") \/ Contains(exercise_lower, "curl")
    THEN IF FLess(<<165, 1>>, avg_elbow_max) THEN 10
         ELSE IF FLess(avg_elbow_max, <<140, 1>>) THEN -15
         ELSE 0
    ELSE 0

\* _calculate_quality_score: symmetry bonus, in hundredths
SymmetryDelta(symmetry_score) ==
    IF FLess(<<9, 10>>, symmetry_score) THEN 10
    ELSE IF FLess(symmetry_score, <<7, 10>>) THEN -15
    ELSE 0

\* _calculate_quality_score: tempo bonus, in hundredths
TempoDelta(spread_sq) ==
    IF TempoAbove08(spread_sq) THEN 5
    ELSE IF TempoBelow05(spread_sq) THEN -10
    ELSE 0

\* A variant of the final clamp with the floor only.
ClampQualityFloorOnly(score) == IF score < 50 THEN 50 ELSE score

\* max(0.5, min(1.5, score)), in hundredths
ClampQuality(score) == IF score < 50 THEN 50 ELSE IF score > 150 THEN 150 ELSE score

\* YOLOPoseAnalyzer._calculate_quality_score, in hundredths
calculate_quality_score(exercise_name, min_angles, max_angles, symmetry_score, spread_sq) ==
    ClampQuality(100
                 + KneeDepthDelta(Lower(exercise_name), AvgKneeMin(min_angles))
                 + ElbowExtensionDelta(Lower(exercise_name), AvgElbowMax(max_angles))
                 + SymmetryDelta(symmetry_score)
                 + TempoDelta(spread_sq))

\* The PoseMetrics that analyze_segment builds (without the representative
\* frame, whose bytes are not modelled)
SegmentMetrics(angles_history, min_angles, max_angles, avg_angles, symmetry_diffs, counted, exercise_name) ==
    [joint_angles |-> angles_history,
     min_angles |-> min_angles,
     max_angles |-> max_angles,
     avg_angles |-> avg_angles,
     rep_count |-> counted.rep_count,
     feedback |-> generate_feedback(exercise_name, min_angles, max_angles, avg_angles,
                                    symmetry_diffs),
     avg_quality_score |->
         calculate_quality_score(exercise_name, min_angles, max_angles,
                                 SymmetryScore(symmetry_diffs),
                                 TempoSpreadSq(counted.rep_durations)),
     symmetry_score |-> SymmetryScore(symmetry_diffs),
     tempo_consistency |-> TempoSpreadSq(counted.rep_durations)]

\* analyze_segment once the frames are processed
AnalyzeHistory(angles_history, movement_proxy, f, exercise_name) ==
    IF \A k \in DOMAIN angles_history : angles_history[k] = <<>>
    THEN None
    ELSE Some(SegmentMetrics(
                  angles_history, MinAngles(angles_history), MaxAngles(angles_history),
                  AvgAngles(angles_history), SymmetryDiffs(angles_history),
                  CountPrimary(PrimarySignal(angles_history, movement_proxy,
                                             Lower(exercise_name)), f),
                  exercise_name))

\* YOLOPoseAnalyzer.analyze_segment, from the frames the capture yields
analyze_segment(frames, f, exercise_name) ==
    AnalyzeHistory(AnglesHistory(frames), MovementProxy(frames), f, exercise_name)

(***************************************************************************)
(* Pose analysis of one segment by PoseAnalyzer (pose_service.py), the     *)
(* analyzer of the pipeline's workers.  A frame with pose landmarks yields *)
(* all eight joint angles (get_landmarks_dict returns every landmark), a   *)
(* frame without yields none.  Every FRAME_SKIP-th frame of the video is   *)
(* read; `frames` are the frames read.                                     *)
(***************************************************************************)
FRAME_SKIP == 5

\* min(v) if v else 0.0
MediapipeMinAngles(angles_history) ==
    [k \in DOMAIN angles_history |->
        IF angles_history[k] # <<>> THEN SeqMin(angles_history[k]) ELSE 0]

\* PoseAnalyzer._generate_feedback (the degree sign is written " deg")
MediapipeFeedback(mins, maxs) ==
    LET avg_min_knee == Frac(DictGet(mins, "left_knee", 180) + DictGet(mins, "right_knee", 180), 2)
        avg_max_elbow == Frac(DictGet(maxs, "left_elbow", 0) + DictGet(maxs, "right_elbow", 0), 2)
        diff == DictGet(mins, "left_elbow", 0) - DictGet(mins, "right_elbow", 0)
        elbow_diff == IF diff < 0 THEN -diff ELSE diff
    IN  <<IF FLess(avg_min_knee, <<80, 1>>) THEN "Excellent depth on leg movements."
          ELSE IF FLess(avg_min_knee, <<100, 1>>) THEN "Good depth, roughly parallel."
          ELSE "Depth seems shallow (knees didn't bend past 100 deg).">>
        \o <<IF FLess(<<160, 1>>, avg_max_elbow) THEN "Full arm extension detected."
             ELSE "Arms not fully extending (max angle " \o Format0f(avg_max_elbow) \o " deg).">>
        \o (IF elbow_diff > 15 THEN <<"Detected asymmetry in arm movements.">> ELSE <<>>)

\* The quality score of PoseAnalyzer.analyze_segment, in hundredths: 1.0,
\* plus 0.2 or minus 0.2 for the knee depth, plus 0.1 or minus 0.2 for the
\* elbow extension; it is not clamped.
MediapipeQualityScore(min_angles, max_angles) ==
    LET avg_knee_min == Frac(DictGet(min_angles, "left_knee", 180)
                                 + DictGet(min_angles, "right_knee", 180), 2)
        avg_elbow_max == Frac(DictGet(max_angles, "left_elbow", 0)
                                  + DictGet(max_angles, "right_elbow", 0), 2)
    IN  100
        + (IF FLess(avg_knee_min, <<90, 1>>) THEN 20
           ELSE IF FLess(<<110, 1>>, avg_knee_min) THEN -20 ELSE 0)
        + (IF FLess(<<165, 1>>, avg_elbow_max) THEN 10
           ELSE IF FLess(avg_elbow_max, <<140, 1>>) THEN -20 ELSE 0)

\* The PoseMetrics of PoseAnalyzer.analyze_segment; representative_frame is
\* held as whether a frame was captured.
MediapipeMetrics(angles_history, min_angles, max_angles, rep_count, frame_captured) ==
    [joint_angles |-> angles_history,
     min_angles |-> min_angles,
     max_angles |-> max_angles,
     rep_count |-> rep_count,
     feedback |-> MediapipeFeedback(min_angles, max_angles),
     representative_frame |-> frame_captured,
     avg_quality_score |-> MediapipeQualityScore(min_angles, max_angles)]

\* PoseAnalyzer.analyze_segment once the frames are read: None without any
\* angle, else the metrics.  video_fps is a multiple of FRAME_SKIP; the
\* movement proxy is held in 1/ProxyUnit degrees.
MediapipeAnalyzeSegment(frames, frame_captured, video_fps) ==
    LET angles_history == AnglesHistory(frames)
    IN  IF \A k \in DOMAIN angles_history : angles_history[k] = <<>>
        THEN None
        ELSE Some(MediapipeMetrics(
                      angles_history,
                      MediapipeMinAngles(angles_history),
                      MaxAngles(angles_history),
                      MediapipeCountRepsIn(InUnits(MovementProxy(frames), ProxyUnit),
                                           ProxyUnit, video_fps \div FRAME_SKIP).rep_count,
                      frame_captured))

\* MUSCLE_GROUPS of step4_muscle_mapper.py (the keys, in order)
MAPPER_MUSCLE_GROUPS ==
    <<"chest", "upper_chest", "lower_chest", "lats", "upper_back", "lower_back",
      "traps", "front_delts", "side_delts", "rear_delts", "rotator_cuff", "biceps",
      "triceps", "forearms", "abs", "obliques", "transverse_abs", "quads",
      "hamstrings", "glutes", "adductors", "abductors", "calves", "hip_flexors">>

MUSCLE_CATEGORIES ==
    <<[category |-> "push", muscles |-> <<"chest", "upper_chest", "lower_chest", "front_delts", "side_delts", "triceps">>],
      [category |-> "pull", muscles |-> <<"lats", "upper_back", "traps", "rear_delts", "biceps", "forearms">>],
      [category |-> "legs", muscles |-> <<"quads", "hamstrings", "glutes", "adductors", "abductors", "calves", "hip_flexors">>],
      [category |-> "core", muscles |-> <<"abs", "obliques", "transverse_abs", "lower_back">>]>>

\* EXERCISE_DATABASE, in the order of the source; weights and deltas in hundredths.
EXERCISE_DATABASE ==
    <<[name |-> "barbell squat",
       aliases |-> <<"squat", "back squat", "barbell back squat", "bb squat">>,
       category |-> "legs",
       primary |-> <<<<"quads", 90>>, <<"glutes", 80>>>>,
       secondary |-> <<<<"hamstrings", 40>>, <<"lower_back", 50>>, <<"abs", 40>>, <<"calves", 20>>>>,
       modifiers |->
          <<[modifier |-> "high_bar", deltas |-> <<<<"quads", 5>>>>],
            [modifier |-> "low_bar", deltas |-> <<<<"glutes", 5>>, <<"lower_back", 5>>, <<"quads", -5>>>>],
            [modifier |-> "wide_stance", deltas |-> <<<<"glutes", 10>>, <<"adductors", 15>>, <<"quads", -5>>>>],
            [modifier |-> "narrow_stance", deltas |-> <<<<"quads", 10>>, <<"glutes", -5>>>>],
            [modifier |-> "deep", deltas |-> <<<<"glutes", 10>>, <<"hamstrings", 5>>>>],
            [modifier |-> "parallel", deltas |-> <<>>],
            [modifier |-> "shallow", deltas |-> <<<<"quads", 5>>, <<"glutes", -15>>>>]>>],
      [name |-> "front squat",
       aliases |-> <<"barbell front squat", "front squats">>,
       category |-> "legs",
       primary |-> <<<<"quads", 95>>, <<"glutes", 70>>>>,
       secondary |-> <<<<"abs", 50>>, <<"upper_back", 40>>, <<"lower_back", 30>>>>,
       modifiers |->
          <<>>],
      [name |-> "deadlift",
       aliases |-> <<"conventional deadlift", "barbell deadlift", "bb deadlift">>,
       category |-> "legs",
       primary |-> <<<<"lower_back", 90>>, <<"glutes", 85>>, <<"hamstrings", 80>>>>,
       secondary |-> <<<<"quads", 40>>, <<"traps", 50>>, <<"forearms", 60>>, <<"lats", 30>>, <<"abs", 40>>>>,
       modifiers |->
          <<[modifier |-> "sumo", deltas |-> <<<<"glutes", 10>>, <<"adductors", 25>>, <<"lower_back", -15>>, <<"quads", 15>>>>],
            [modifier |-> "conventional", deltas |-> <<>>]>>],
      [name |-> "romanian deadlift",
       aliases |-> <<"rdl", "stiff leg deadlift", "sldl">>,
       category |-> "legs",
       primary |-> <<<<"hamstrings", 95>>, <<"glutes", 85>>, <<"lower_back", 70>>>>,
       secondary |-> <<<<"forearms", 40>>, <<"lats", 20>>>>,
       modifiers |->
          <<>>],
      [name |-> "leg press",
       aliases |-> <<"machine leg press", "45 degree leg press">>,
       category |-> "legs",
       primary |-> <<<<"quads", 90>>, <<"glutes", 60>>>>,
       secondary |-> <<<<"hamstrings", 30>>, <<"calves", 20>>>>,
       modifiers |->
          <<[modifier |-> "high_feet", deltas |-> <<<<"glutes", 15>>, <<"hamstrings", 10>>, <<"quads", -10>>>>],
            [modifier |-> "low_feet", deltas |-> <<<<"quads", 10>>, <<"glutes", -10>>>>],
            [modifier |-> "wide_stance", deltas |-> <<<<"adductors", 20>>, <<"glutes", 10>>>>]>>],
      [name |-> "lunges",
       aliases |-> <<"walking lunges", "forward lunges", "lunge">>,
       category |-> "legs",
       primary |-> <<<<"quads", 85>>, <<"glutes", 80>>>>,
       secondary |-> <<<<"hamstrings", 40>>, <<"calves", 30>>, <<"abs", 30>>>>,
       modifiers |->
          <<>>],
      [name |-> "bulgarian split squat",
       aliases |-> <<"split squat", "rear foot elevated split squat">>,
       category |-> "legs",
       primary |-> <<<<"quads", 90>>, <<"glutes", 85>>>>,
       secondary |-> <<<<"hamstrings", 40>>, <<"abs", 35>>>>,
       modifiers |->
          <<>>],
      [name |-> "hip thrust",
       aliases |-> <<"barbell hip thrust", "glute bridge", "hip bridge">>,
       category |-> "legs",
       primary |-> <<<<"glutes", 95>>, <<"hamstrings", 50>>>>,
       secondary |-> <<<<"lower_back", 20>>, <<"abs", 30>>>>,
       modifiers |->
          <<>>],
      [name |-> "leg extension",
       aliases |-> <<"leg extensions", "quad extension">>,
       category |-> "legs",
       primary |-> <<<<"quads", 95>>>>,
       secondary |-> <<>>,
       modifiers |->
          <<>>],
      [name |-> "leg curl",
       aliases |-> <<"lying leg curl", "seated leg curl", "hamstring curl">>,
       category |-> "legs",
       primary |-> <<<<"hamstrings", 95>>>>,
       secondary |-> <<<<"calves", 20>>>>,
       modifiers |->
          <<>>],
      [name |-> "calf raise",
       aliases |-> <<"standing calf raise", "seated calf raise", "calf raises">>,
       category |-> "legs",
       primary |-> <<<<"calves", 95>>>>,
       secondary |-> <<>>,
       modifiers |->
          <<>>],
      [name |-> "bench press",
       aliases |-> <<"barbell bench press", "flat bench", "bb bench">>,
       category |-> "push",
       primary |-> <<<<"chest", 90>>, <<"triceps", 70>>, <<"front_delts", 50>>>>,
       secondary |-> <<<<"lats", 20>>>>,
       modifiers |->
          <<[modifier |-> "wide_grip", deltas |-> <<<<"chest", 10>>, <<"triceps", -10>>>>],
            [modifier |-> "close_grip", deltas |-> <<<<"triceps", 20>>, <<"chest", -15>>>>],
            [modifier |-> "incline", deltas |-> <<<<"upper_chest", 25>>, <<"front_delts", 15>>, <<"chest", -10>>>>],
            [modifier |-> "decline", deltas |-> <<<<"lower_chest", 20>>, <<"front_delts", -10>>>>]>>],
      [name |-> "dumbbell bench press",
       aliases |-> <<"db bench", "dumbbell press">>,
       category |-> "push",
       primary |-> <<<<"chest", 90>>, <<"triceps", 60>>, <<"front_delts", 50>>>>,
       secondary |-> <<>>,
       modifiers |->
          <<[modifier |-> "incline", deltas |-> <<<<"upper_chest", 25>>, <<"front_delts", 15>>, <<"chest", -10>>>>]>>],
      [name |-> "overhead press",
       aliases |-> <<"ohp", "shoulder press", "military press", "barbell overhead press">>,
       category |-> "push",
       primary |-> <<<<"front_delts", 90>>, <<"side_delts", 70>>, <<"triceps", 60>>>>,
       secondary |-> <<<<"upper_chest", 30>>, <<"traps", 40>>, <<"abs", 40>>>>,
       modifiers |->
          <<>>],
      [name |-> "dumbbell shoulder press",
       aliases |-> <<"db shoulder press", "seated shoulder press">>,
       category |-> "push",
       primary |-> <<<<"front_delts", 90>>, <<"side_delts", 75>>, <<"triceps", 55>>>>,
       secondary |-> <<<<"traps", 35>>>>,
       modifiers |->
          <<>>],
      [name |-> "push up",
       aliases |-> <<"pushup", "push-up", "press up">>,
       category |-> "push",
       primary |-> <<<<"chest", 80>>, <<"triceps", 70>>, <<"front_delts", 50>>>>,
       secondary |-> <<<<"abs", 40>>>>,
       modifiers |->
          <<[modifier |-> "wide", deltas |-> <<<<"chest", 10>>, <<"triceps", -10>>>>],
            [modifier |-> "diamond", deltas |-> <<<<"triceps", 20>>, <<"chest", -10>>>>],
            [modifier |-> "incline", deltas |-> <<<<"lower_chest", 10>>>>],
            [modifier |-> "decline", deltas |-> <<<<"upper_chest", 15>>, <<"front_delts", 10>>>>]>>],
      [name |-> "dips",
       aliases |-> <<"chest dips", "tricep dips", "parallel bar dips">>,
       category |-> "push",
       primary |-> <<<<"triceps", 85>>, <<"chest", 75>>, <<"front_delts", 50>>>>,
       secondary |-> <<>>,
       modifiers |->
          <<[modifier |-> "chest_focus", deltas |-> <<<<"chest", 15>>, <<"triceps", -10>>>>],
            [modifier |-> "tricep_focus", deltas |-> <<<<"triceps", 10>>, <<"chest", -10>>>>]>>],
      [name |-> "lateral raise",
       aliases |-> <<"side raise", "lateral raises", "side lateral raise">>,
       category |-> "push",
       primary |-> <<<<"side_delts", 95>>>>,
       secondary |-> <<<<"traps", 30>>, <<"front_delts", 20>>>>,
       modifiers |->
          <<>>],
      [name |-> "front raise",
       aliases |-> <<"front delt raise", "front raises">>,
       category |-> "push",
       primary |-> <<<<"front_delts", 95>>>>,
       secondary |-> <<<<"side_delts", 20>>>>,
       modifiers |->
          <<>>],
      [name |-> "tricep pushdown",
       aliases |-> <<"cable pushdown", "tricep extension", "pushdowns">>,
       category |-> "push",
       primary |-> <<<<"triceps", 95>>>>,
       secondary |-> <<>>,
       modifiers |->
          <<>>],
      [name |-> "skull crusher",
       aliases |-> <<"lying tricep extension", "skull crushers">>,
       category |-> "push",
       primary |-> <<<<"triceps", 95>>>>,
       secondary |-> <<>>,
       modifiers |->
          <<>>],
      [name |-> "cable fly",
       aliases |-> <<"cable flys", "cable crossover", "pec fly">>,
       category |-> "push",
       primary |-> <<<<"chest", 90>>>>,
       secondary |-> <<<<"front_delts", 30>>>>,
       modifiers |->
          <<[modifier |-> "high_to_low", deltas |-> <<<<"lower_chest", 20>>>>],
            [modifier |-> "low_to_high", deltas |-> <<<<"upper_chest", 20>>>>]>>],
      [name |-> "pull up",
       aliases |-> <<"pullup", "pull-up", "chin up">>,
       category |-> "pull",
       primary |-> <<<<"lats", 90>>, <<"biceps", 70>>>>,
       secondary |-> <<<<"rear_delts", 40>>, <<"forearms", 50>>, <<"abs", 30>>>>,
       modifiers |->
          <<[modifier |-> "wide_grip", deltas |-> <<<<"lats", 10>>, <<"biceps", -10>>>>],
            [modifier |-> "chin_up", deltas |-> <<<<"biceps", 20>>, <<"lats", -10>>>>],
            [modifier |-> "neutral_grip", deltas |-> <<>>]>>],
      [name |-> "lat pulldown",
       aliases |-> <<"cable pulldown", "wide grip pulldown">>,
       category |-> "pull",
       primary |-> <<<<"lats", 90>>, <<"biceps", 60>>>>,
       secondary |-> <<<<"rear_delts", 40>>, <<"forearms", 30>>>>,
       modifiers |->
          <<[modifier |-> "wide_grip", deltas |-> <<<<"lats", 10>>>>],
            [modifier |-> "close_grip", deltas |-> <<<<"biceps", 10>>, <<"lats", -5>>>>]>>],
      [name |-> "barbell row",
       aliases |-> <<"bent over row", "bb row", "pendlay row">>,
       category |-> "pull",
       primary |-> <<<<"lats", 85>>, <<"upper_back", 80>>, <<"rear_delts", 60>>>>,
       secondary |-> <<<<"biceps", 50>>, <<"lower_back", 50>>, <<"forearms", 40>>>>,
       modifiers |->
          <<[modifier |-> "underhand", deltas |-> <<<<"biceps", 15>>, <<"lats", 5>>>>],
            [modifier |-> "overhand", deltas |-> <<>>]>>],
      [name |-> "dumbbell row",
       aliases |-> <<"db row", "one arm row", "single arm row">>,
       category |-> "pull",
       primary |-> <<<<"lats", 85>>, <<"upper_back", 75>>, <<"rear_delts", 55>>>>,
       secondary |-> <<<<"biceps", 50>>, <<"forearms", 40>>>>,
       modifiers |->
          <<>>],
      [name |-> "cable row",
       aliases |-> <<"seated cable row", "low row", "seated row">>,
       category |-> "pull",
       primary |-> <<<<"lats", 80>>, <<"upper_back", 75>>, <<"rear_delts", 50>>>>,
       secondary |-> <<<<"biceps", 50>>, <<"forearms", 35>>>>,
       modifiers |->
          <<>>],
      [name |-> "t-bar row",
       aliases |-> <<"t bar row", "landmine row">>,
       category |-> "pull",
       primary |-> <<<<"lats", 85>>, <<"upper_back", 80>>>>,
       secondary |-> <<<<"biceps", 50>>, <<"rear_delts", 50>>, <<"lower_back", 40>>>>,
       modifiers |->
          <<>>],
      [name |-> "bicep curl",
       aliases |-> <<"barbell curl", "dumbbell curl", "curls", "bb curl", "db curl">>,
       category |-> "pull",
       primary |-> <<<<"biceps", 95>>>>,
       secondary |-> <<<<"forearms", 40>>>>,
       modifiers |->
          <<>>],
      [name |-> "hammer curl",
       aliases |-> <<"hammer curls", "neutral grip curl">>,
       category |-> "pull",
       primary |-> <<<<"biceps", 85>>, <<"forearms", 60>>>>,
       secondary |-> <<>>,
       modifiers |->
          <<>>],
      [name |-> "face pull",
       aliases |-> <<"face pulls", "rope face pull">>,
       category |-> "pull",
       primary |-> <<<<"rear_delts", 85>>, <<"upper_back", 70>>>>,
       secondary |-> <<<<"rotator_cuff", 50>>, <<"traps", 40>>>>,
       modifiers |->
          <<>>],
      [name |-> "reverse fly",
       aliases |-> <<"rear delt fly", "reverse pec deck">>,
       category |-> "pull",
       primary |-> <<<<"rear_delts", 90>>, <<"upper_back", 50>>>>,
       secondary |-> <<<<"traps", 30>>>>,
       modifiers |->
          <<>>],
      [name |-> "shrug",
       aliases |-> <<"barbell shrug", "dumbbell shrug", "shrugs">>,
       category |-> "pull",
       primary |-> <<<<"traps", 95>>>>,
       secondary |-> <<<<"forearms", 30>>>>,
       modifiers |->
          <<>>],
      [name |-> "plank",
       aliases |-> <<"front plank", "elbow plank">>,
       category |-> "core",
       primary |-> <<<<"abs", 85>>, <<"transverse_abs", 90>>>>,
       secondary |-> <<<<"obliques", 50>>, <<"lower_back", 40>>, <<"front_delts", 30>>>>,
       modifiers |->
          <<>>],
      [name |-> "crunch",
       aliases |-> <<"crunches", "ab crunch">>,
       category |-> "core",
       primary |-> <<<<"abs", 90>>>>,
       secondary |-> <<<<"obliques", 30>>>>,
       modifiers |->
          <<>>],
      [name |-> "leg raise",
       aliases |-> <<"hanging leg raise", "lying leg raise", "leg raises">>,
       category |-> "core",
       primary |-> <<<<"abs", 85>>, <<"hip_flexors", 70>>>>,
       secondary |-> <<<<"obliques", 40>>>>,
       modifiers |->
          <<>>],
      [name |-> "russian twist",
       aliases |-> <<"russian twists", "seated twist">>,
       category |-> "core",
       primary |-> <<<<"obliques", 90>>, <<"abs", 60>>>>,
       secondary |-> <<<<"hip_flexors", 30>>>>,
       modifiers |->
          <<>>],
      [name |-> "cable woodchop",
       aliases |-> <<"wood chop", "woodchop">>,
       category |-> "core",
       primary |-> <<<<"obliques", 85>>, <<"abs", 70>>>>,
       secondary |-> <<<<"front_delts", 30>>>>,
       modifiers |->
          <<>>],
      [name |-> "ab wheel",
       aliases |-> <<"ab wheel rollout", "ab roller">>,
       category |-> "core",
       primary |-> <<<<"abs", 90>>, <<"transverse_abs", 85>>>>,
       secondary |-> <<<<"lats", 40>>, <<"front_delts", 35>>, <<"lower_back", 30>>>>,
       modifiers |->
          <<>>]>>

(***************************************************************************)
(* MuscleMapper: scripts/step4_muscle_mapper.py                            *)
(***************************************************************************)
\* The assignments alias_map[key.lower()] = name that _build_alias_lookup makes,
\* in the order it makes them.
EntryAssignments(data) ==
    <<[alias |-> Lower(data.name), exercise |-> data.name]>>
    \o [i \in 1..Len(data.aliases) |->
            [alias |-> Lower(data.aliases[i]), exercise |-> data.name]]

RECURSIVE AliasAssignments(_)
AliasAssignments(db) ==
    IF db = <<>> THEN <<>> ELSE EntryAssignments(Head(db)) \o AliasAssignments(Tail(db))

\* MuscleMapper._build_alias_lookup: self.alias_map as the sequence of its items
\* in insertion order.  A key assigned twice keeps its first position and takes
\* the last value assigned.
BuildAliasLookup(db) ==
    LET asg == AliasAssignments(db)
        firsts == {i \in 1..Len(asg) : \A j \in 1..(i - 1) : asg[j].alias # asg[i].alias}
        nth(k) == CHOOSE i \in firsts : Cardinality({j \in firsts : j < i}) = k - 1
        last(a) == CHOOSE i \in 1..Len(asg) :
                       /\ asg[i].alias = a
                       /\ \A j \in (i + 1)..Len(asg) : asg[j].alias # a
    IN  [k \in 1..Cardinality(firsts) |-> asg[last(asg[nth(k)].alias)]]

\* self.alias_map
alias_map == BuildAliasLookup(EXERCISE_DATABASE)

alias_words == [i \in 1..Len(alias_map) |-> SplitWords(alias_map[i].alias)]

\* A variant of _normalize_name that leaves '-' and '_' in the name.
normalize_name_keeping_separators(name) == Strip(Lower(name))

\* MuscleMapper._normalize_name
normalize_name(name) == Replace(Replace(Strip(Lower(name)), "-", " "), "_", " ")

MinOf(S) == CHOOSE m \in S : \A x \in S : m <= x

MaxOf(S) == CHOOSE m \in S : \A x \in S : m >= x

\* overlap = len(query_words & alias_words) for each item of alias_map
WordOverlap(normalized) ==
    [i \in 1..Len(alias_map) |-> Cardinality(SplitWords(normalized) \cap alias_words[i])]

\* A variant of the fuzzy match that returns its best match whatever the score.
FuzzyMatchAnyScore(normalized) ==
    Some(alias_map[MinOf({i \in 1..Len(alias_map) :
                             \A j \in 1..Len(alias_map) :
                                 WordOverlap(normalized)[j] <= WordOverlap(normalized)[i]})].exercise)

\* The fuzzy match of _find_exercise: the first item of alias_map with the
\* largest word overlap, if that overlap is at least 1
FuzzyMatch(normalized) ==
    LET overlap == WordOverlap(normalized)
        best_score == MaxOf({0} \cup {overlap[i] : i \in 1..Len(alias_map)})
    IN  IF best_score >= 1
        THEN Some(alias_map[MinOf({i \in 1..Len(alias_map) : overlap[i] = best_score})].exercise)
        ELSE None

\* The partial match of _find_exercise: the first item of alias_map whose key
\* holds the query or is held by it; the fuzzy match if there is none
PartialMatch(normalized) ==
    LET partial == {i \in 1..Len(alias_map) : \/ Contains(alias_map[i].alias, normalized)
                                               \/ Contains(normalized, alias_map[i].alias)}
    IN  IF partial # {} THEN Some(alias_map[MinOf(partial)].exercise)
        ELSE FuzzyMatch(normalized)

\* _find_exercise from the normalized name on
FindNormalized(normalized) ==
    LET exact == {i \in 1..Len(alias_map) : alias_map[i].alias = normalized}
    IN  IF exact # {} THEN Some(alias_map[MinOf(exact)].exercise)
        ELSE PartialMatch(normalized)

\* MuscleMapper._find_exercise: the canonical name, or None
find_exercise(name) == FindNormalized(normalize_name(name))

Entry(name) ==
    EXERCISE_DATABASE[CHOOSE i \in 1..Len(EXERCISE_DATABASE) : EXERCISE_DATABASE[i].name = name]

\* modifier_keywords, in the order of the source
ModifierKeywords(var_lower) ==
    <<[keyword |-> "wide",
       modifier |-> IF Contains(var_lower, "stance") THEN "wide_stance" ELSE "wide_grip"],
      [keyword |-> "narrow",
       modifier |-> IF Contains(var_lower, "stance") THEN "narrow_stance" ELSE "close_grip"],
      [keyword |-> "close", modifier |-> "close_grip"],
      [keyword |-> "sumo", modifier |-> "sumo"],
      [keyword |-> "conventional", modifier |-> "conventional"],
      [keyword |-> "incline", modifier |-> "incline"],
      [keyword |-> "decline", modifier |-> "decline"],
      [keyword |-> "high bar", modifier |-> "high_bar"],
      [keyword |-> "low bar", modifier |-> "low_bar"],
      [keyword |-> "underhand", modifier |-> "underhand"],
      [keyword |-> "overhand", modifier |-> "overhand"],
      [keyword |-> "chin", modifier |-> "chin_up"],
      [keyword |-> "diamond", modifier |-> "diamond"],
      [keyword |-> "deep", modifier |-> "deep"]>>

RECURSIVE KeywordModifiers(_, _)
KeywordModifiers(kws, var_lower) ==
    IF kws = <<>> THEN <<>>
    ELSE (IF Contains(var_lower, Head(kws).keyword) THEN <<Head(kws).modifier>> ELSE <<>>)
         \o KeywordModifiers(Tail(kws), var_lower)

DEEP_KNEE_MIN == 70        \* min_angle < 70

SHALLOW_KNEE_MIN == 100    \* min_angle > 100

\* MuscleMapper._detect_modifiers.  variation: a string ("" stands for None
\* too: both are falsy); pose_metrics: None, or Some(m) for a knee_rom whose
\* minimum is m.
detect_modifiers(variation, pose_metrics) ==
    LET from_text ==
            IF variation # ""
            THEN KeywordModifiers(ModifierKeywords(Lower(variation)), Lower(variation))
            ELSE <<>>
        from_pose ==
            IF pose_metrics # None
            THEN LET min_angle == pose_metrics[1]
                 IN  IF min_angle # 0 /\ min_angle < DEEP_KNEE_MIN THEN <<"deep">>
                     ELSE IF min_angle # 0 /\ min_angle > SHALLOW_KNEE_MIN THEN <<"shallow">>
                     ELSE <<>>
            ELSE <<>>
    IN  from_text \o from_pose

\* for muscle, value in d.items(): activation[muscle] = value
RECURSIVE SetAll(_, _)
SetAll(activation, items) ==
    IF items = <<>> THEN activation
    ELSE SetAll(DictSet(activation, Head(items)[1], Head(items)[2]), Tail(items))

\* A variant of the delta loop that clamps the value to [0, 1] after every
\* delta.
RECURSIVE AddDeltasClampedEach(_, _)
AddDeltasClampedEach(activation, deltas) ==
    IF deltas = <<>> THEN activation
    ELSE LET v == DictGet(activation, Head(deltas)[1], 0) + Head(deltas)[2]
         IN  AddDeltasClampedEach(
                 DictSet(activation, Head(deltas)[1],
                         IF v < 0 THEN 0 ELSE IF v > 100 THEN 100 ELSE v),
                 Tail(deltas))

\* for muscle, delta in deltas.items():
\*     activation[muscle] = activation.get(muscle, 0) + delta
RECURSIVE AddDeltas(_, _)
AddDeltas(activation, deltas) ==
    IF deltas = <<>> THEN activation
    ELSE AddDeltas(DictSet(activation, Head(deltas)[1],
                           DictGet(activation, Head(deltas)[1], 0) + Head(deltas)[2]),
                   Tail(deltas))

ModifierDeltas(available, modifier) ==
    available[CHOOSE i \in 1..Len(available) : available[i].modifier = modifier].deltas

IsAvailable(available, modifier) ==
    \E i \in 1..Len(available) : available[i].modifier = modifier

\* for modifier in modifiers: if modifier in available_modifiers: ...
\* st is [activation, modifiers_applied]
RECURSIVE ApplyModifiers(_, _, _)
ApplyModifiers(st, modifiers, available) ==
    IF modifiers = <<>> THEN st
    ELSE ApplyModifiers(
             IF IsAvailable(available, Head(modifiers))
             THEN [activation |->
                       AddDeltas(st.activation, ModifierDeltas(available, Head(modifiers))),
                   modifiers_applied |-> Append(st.modifiers_applied, Head(modifiers))]
             ELSE st,
             Tail(modifiers), available)

\* A variant of the clamp without its upper limit: max(0.0, v).
ClampBelowOnly(v) == IF v < 0 THEN 0 ELSE v

\* max(0.0, min(1.0, v)), in hundredths
Clamp01(v) == IF v < 0 THEN 0 ELSE IF v > 100 THEN 100 ELSE v

Keys(items) == [i \in 1..Len(items) |-> items[i][1]]

\* The ExerciseActivation returned for a name that matched nothing.
\* confidence 1.0 / 0.0 is 100 / 0.
UnknownActivation(exercise_name) ==
    [exercise_name |-> exercise_name,
     matched_exercise |-> "unknown",
     variation |-> "",
     duration_seconds |-> 0,
     activation |-> [m \in {"unknown"} |-> 100],
     primary_muscles |-> <<>>,
     secondary_muscles |-> <<>>,
     confidence |-> 0,
     modifiers_applied |-> <<>>]

\* activation = {}; the primary, then the secondary muscles are written to it
BaseActivation(exercise_data) ==
    SetAll(SetAll(EmptyDict, exercise_data.primary), exercise_data.secondary)

\* The ExerciseActivation built from the modified activation: every value is
\* clamped to [0, 1]
ClampedActivation(exercise_name, matched, exercise_data, variation, duration_seconds, applied) ==
    [exercise_name |-> exercise_name,
     matched_exercise |-> matched,
     variation |-> variation,
     duration_seconds |-> duration_seconds,
     activation |-> [k \in DOMAIN applied.activation |-> Clamp01(applied.activation[k])],
     primary_muscles |-> Keys(exercise_data.primary),
     secondary_muscles |-> Keys(exercise_data.secondary),
     confidence |-> 100,
     modifiers_applied |-> applied.modifiers_applied]

\* get_activation from exercise_data = EXERCISE_DATABASE[matched] on
MatchedActivation(exercise_name, matched, exercise_data, variation, pose_metrics, duration_seconds) ==
    ClampedActivation(exercise_name, matched, exercise_data, variation, duration_seconds,
        ApplyModifiers([activation |-> BaseActivation(exercise_data),
                        modifiers_applied |-> <<>>],
                       detect_modifiers(variation, pose_metrics),
                       exercise_data.modifiers))

\* get_activation from the result of _find_exercise on
FoundActivation(exercise_name, found, variation, pose_metrics, duration_seconds) ==
    IF found = None
    THEN UnknownActivation(exercise_name)
    ELSE MatchedActivation(exercise_name, found[1], Entry(found[1]), variation,
                           pose_metrics, duration_seconds)

\* MuscleMapper.get_activation
get_activation(exercise_name, variation, pose_metrics, duration_seconds) ==
    FoundActivation(exercise_name, find_exercise(exercise_name), variation, pose_metrics,
                    duration_seconds)

MIN_DURATION == 30      \* max(ex.duration_seconds, 30)

\* weight = max(ex.duration_seconds, 30) / 60, times 60
ExerciseWeight(ex) ==
    IF ex.duration_seconds > MIN_DURATION THEN ex.duration_seconds ELSE MIN_DURATION

\* A variant of the loop that assigns (total[muscle] = value * weight) where
\* the source accumulates: the last exercise that has the muscle wins.
RECURSIVE WorkoutTotalAssigned(_, _)
WorkoutTotalAssigned(exs, muscle) ==
    IF exs = <<>> THEN 0
    ELSE IF muscle \in DOMAIN exs[Len(exs)].activation
    THEN exs[Len(exs)].activation[muscle]
         * (IF exs[Len(exs)].duration_seconds > 30 THEN exs[Len(exs)].duration_seconds ELSE 30)
    ELSE WorkoutTotalAssigned(SubSeq(exs, 1, Len(exs) - 1), muscle)

\* total[muscle] after the loop over the exercises, times 6000 (values are in
\* hundredths, weights in sixtieths)
RECURSIVE WorkoutTotal(_, _)
WorkoutTotal(exs, muscle) ==
    IF exs = <<>> THEN 0
    ELSE WorkoutTotal(SubSeq(exs, 1, Len(exs) - 1), muscle)
         + DictGet(exs[Len(exs)].activation, muscle, 0) * ExerciseWeight(exs[Len(exs)])

\* MuscleMapper.aggregate_workout
aggregate_workout(exs, normalize) ==
    LET total == [m \in Range(MAPPER_MUSCLE_GROUPS) |-> WorkoutTotal(exs, m)]
        max_val == MaxOf({total[m] : m \in DOMAIN total})
    IN  IF normalize /\ max_val > 0
        THEN [m \in DOMAIN total |-> Frac(total[m], max_val)]
        ELSE [m \in DOMAIN total |-> Frac(total[m], 6000)]

PUSH_DOMINANT_RATIO == <<3, 2>>     \* ratio > 1.5

\* A variant of the pull-dominant limit: two thirds, the inverse of 1.5.
PULL_DOMINANT_TWO_THIRDS == <<2, 3>>

PULL_DOMINANT_RATIO == <<67, 100>>  \* ratio < 0.67

NEGLECTED_BELOW == <<1, 10>>        \* value < 0.1

CategoryMuscles(category) ==
    MUSCLE_CATEGORIES[CHOOSE i \in 1..Len(MUSCLE_CATEGORIES) :
                          MUSCLE_CATEGORIES[i].category = category].muscles

\* sum(workout_totals.get(m, 0) for m in muscles)
RECURSIVE SumOver(_, _)
SumOver(d, muscles) ==
    IF muscles = <<>> THEN FZero
    ELSE FAdd(DictGet(d, Head(muscles), FZero), SumOver(d, Tail(muscles)))

RECURSIVE NeglectedMuscles(_, _)
NeglectedMuscles(d, muscles) ==
    IF muscles = <<>> THEN <<>>
    ELSE (IF Head(muscles) \in DOMAIN d /\ FLess(d[Head(muscles)], NEGLECTED_BELOW)
          THEN <<"Consider adding exercises for " \o Head(muscles)>> ELSE <<>>)
         \o NeglectedMuscles(d, Tail(muscles))

\* MuscleMapper.analyze_balance
analyze_balance(totals) ==
    LET category_totals ==
            [c \in {"push", "pull", "legs", "core"} |->
                SumOver(totals, CategoryMuscles(c))]
        push == category_totals["push"]
        pull == category_totals["pull"]
        ratio == FDiv(push, pull)
        imbalances ==
            IF FLess(FZero, push) /\ FLess(FZero, pull)
            THEN IF FLess(PUSH_DOMINANT_RATIO, ratio)
                 THEN <<[type |-> "push_dominant", ratio |-> ratio]>>
                 ELSE IF FLess(ratio, PULL_DOMINANT_RATIO)
                 THEN <<[type |-> "pull_dominant", ratio |-> ratio]>>
                 ELSE <<>>
            ELSE <<>>
        advice ==
            IF imbalances = <<>> THEN <<>>
            ELSE IF imbalances[1].type = "push_dominant"
            THEN <<"Add more pulling exercises (rows, pull-ups)">>
            ELSE <<"Add more pushing exercises (bench, overhead press)">>
    IN  [category_totals |-> category_totals,
         imbalances |-> imbalances,
         recommendations |-> advice \o NeglectedMuscles(totals, MAPPER_MUSCLE_GROUPS)]

\* MUSCLE_GROUPS of muscle_map.py
MUSCLE_GROUPS ==
    <<"chest", "shoulders", "triceps", "biceps", "forearms", "lats",
      "traps", "rhomboids", "lower_back", "core", "obliques", "quadriceps",
      "hamstrings", "glutes", "calves", "hip_flexors">>

PUSH_MUSCLES == {"chest", "shoulders", "triceps"}

PULL_MUSCLES == {"biceps", "forearms", "lats", "rhomboids", "traps"}

LEG_MUSCLES == {"calves", "glutes", "hamstrings", "hip_flexors", "quadriceps"}

CORE_MUSCLES == {"core", "lower_back", "obliques"}

\* EXERCISE_MUSCLE_MAP, in the order of the source; weights in hundredths.
EXERCISE_MUSCLE_MAP ==
    <<[key |-> "bench press",
       primary |-> <<<<"chest", 45>>, <<"triceps", 30>>>>,
       secondary |-> <<<<"shoulders", 20>>, <<"core", 10>>>>],
      [key |-> "incline bench press",
       primary |-> <<<<"chest", 40>>, <<"shoulders", 30>>>>,
       secondary |-> <<<<"triceps", 25>>, <<"core", 10>>>>],
      [key |-> "dumbbell press",
       primary |-> <<<<"chest", 45>>, <<"triceps", 25>>>>,
       secondary |-> <<<<"shoulders", 20>>, <<"core", 15>>>>],
      [key |-> "push-up",
       primary |-> <<<<"chest", 40>>, <<"triceps", 30>>>>,
       secondary |-> <<<<"shoulders", 20>>, <<"core", 25>>>>],
      [key |-> "chest fly",
       primary |-> <<<<"chest", 50>>>>,
       secondary |-> <<<<"shoulders", 15>>, <<"biceps", 10>>>>],
      [key |-> "cable crossover",
       primary |-> <<<<"chest", 45>>>>,
       secondary |-> <<<<"shoulders", 15>>, <<"core", 10>>>>],
      [key |-> "pull-up",
       primary |-> <<<<"lats", 45>>, <<"biceps", 30>>>>,
       secondary |-> <<<<"rhomboids", 20>>, <<"forearms", 20>>, <<"core", 15>>>>],
      [key |-> "lat pulldown",
       primary |-> <<<<"lats", 45>>, <<"biceps", 25>>>>,
       secondary |-> <<<<"rhomboids", 15>>, <<"forearms", 15>>>>],
      [key |-> "barbell row",
       primary |-> <<<<"lats", 40>>, <<"rhomboids", 35>>, <<"biceps", 25>>>>,
       secondary |-> <<<<"lower_back", 20>>, <<"forearms", 15>>, <<"core", 15>>>>],
      [key |-> "dumbbell row",
       primary |-> <<<<"lats", 40>>, <<"rhomboids", 30>>>>,
       secondary |-> <<<<"biceps", 25>>, <<"forearms", 15>>, <<"core", 10>>>>],
      [key |-> "cable row",
       primary |-> <<<<"lats", 40>>, <<"rhomboids", 30>>>>,
       secondary |-> <<<<"biceps", 25>>, <<"lower_back", 15>>>>],
      [key |-> "face pull",
       primary |-> <<<<"rhomboids", 40>>, <<"shoulders", 35>>>>,
       secondary |-> <<<<"traps", 20>>, <<"biceps", 15>>>>],
      [key |-> "deadlift",
       primary |-> <<<<"hamstrings", 35>>, <<"glutes", 35>>, <<"lower_back", 35>>>>,
       secondary |-> <<<<"quadriceps", 20>>, <<"traps", 20>>, <<"forearms", 25>>, <<"core", 25>>>>],
      [key |-> "overhead press",
       primary |-> <<<<"shoulders", 50>>, <<"triceps", 30>>>>,
       secondary |-> <<<<"chest", 15>>, <<"core", 20>>, <<"traps", 15>>>>],
      [key |-> "lateral raise",
       primary |-> <<<<"shoulders", 50>>>>,
       secondary |-> <<<<"traps", 15>>>>],
      [key |-> "front raise",
       primary |-> <<<<"shoulders", 45>>>>,
       secondary |-> <<<<"chest", 15>>, <<"core", 10>>>>],
      [key |-> "reverse fly",
       primary |-> <<<<"shoulders", 40>>, <<"rhomboids", 30>>>>,
       secondary |-> <<<<"traps", 20>>>>],
      [key |-> "shrug",
       primary |-> <<<<"traps", 50>>>>,
       secondary |-> <<<<"shoulders", 15>>, <<"forearms", 15>>>>],
      [key |-> "bicep curl",
       primary |-> <<<<"biceps", 50>>>>,
       secondary |-> <<<<"forearms", 20>>>>],
      [key |-> "hammer curl",
       primary |-> <<<<"biceps", 40>>, <<"forearms", 30>>>>,
       secondary |-> <<>>],
      [key |-> "tricep pushdown",
       primary |-> <<<<"triceps", 50>>>>,
       secondary |-> <<<<"shoulders", 10>>>>],
      [key |-> "tricep extension",
       primary |-> <<<<"triceps", 50>>>>,
       secondary |-> <<<<"shoulders", 10>>>>],
      [key |-> "skull crusher",
       primary |-> <<<<"triceps", 50>>>>,
       secondary |-> <<<<"shoulders", 15>>>>],
      [key |-> "dip",
       primary |-> <<<<"triceps", 40>>, <<"chest", 35>>>>,
       secondary |-> <<<<"shoulders", 25>>, <<"core", 10>>>>],
      [key |-> "squat",
       primary |-> <<<<"quadriceps", 45>>, <<"glutes", 40>>>>,
       secondary |-> <<<<"hamstrings", 25>>, <<"core", 25>>, <<"lower_back", 15>>>>],
      [key |-> "front squat",
       primary |-> <<<<"quadriceps", 50>>, <<"glutes", 35>>>>,
       secondary |-> <<<<"core", 30>>, <<"upper_back", 15>>>>],
      [key |-> "leg press",
       primary |-> <<<<"quadriceps", 45>>, <<"glutes", 35>>>>,
       secondary |-> <<<<"hamstrings", 20>>>>],
      [key |-> "lunge",
       primary |-> <<<<"quadriceps", 40>>, <<"glutes", 40>>>>,
       secondary |-> <<<<"hamstrings", 25>>, <<"core", 20>>, <<"calves", 10>>>>],
      [key |-> "leg extension",
       primary |-> <<<<"quadriceps", 55>>>>,
       secondary |-> <<>>],
      [key |-> "leg curl",
       primary |-> <<<<"hamstrings", 55>>>>,
       secondary |-> <<<<"calves", 15>>>>],
      [key |-> "romanian deadlift",
       primary |-> <<<<"hamstrings", 45>>, <<"glutes", 40>>>>,
       secondary |-> <<<<"lower_back", 25>>, <<"core", 15>>>>],
      [key |-> "hip thrust",
       primary |-> <<<<"glutes", 55>>>>,
       secondary |-> <<<<"hamstrings", 25>>, <<"core", 15>>>>],
      [key |-> "calf raise",
       primary |-> <<<<"calves", 55>>>>,
       secondary |-> <<>>],
      [key |-> "plank",
       primary |-> <<<<"core", 45>>>>,
       secondary |-> <<<<"shoulders", 20>>, <<"glutes", 15>>>>],
      [key |-> "crunch",
       primary |-> <<<<"core", 45>>>>,
       secondary |-> <<<<"hip_flexors", 15>>>>],
      [key |-> "leg raise",
       primary |-> <<<<"core", 40>>, <<"hip_flexors", 35>>>>,
       secondary |-> <<>>],
      [key |-> "russian twist",
       primary |-> <<<<"obliques", 45>>, <<"core", 35>>>>,
       secondary |-> <<<<"hip_flexors", 15>>>>],
      [key |-> "ab wheel",
       primary |-> <<<<"core", 50>>>>,
       secondary |-> <<<<"shoulders", 20>>, <<"lats", 15>>>>]>>

(***************************************************************************)
(* muscle_map.py                                                           *)
(***************************************************************************)
normalize_exercise_name(name) == Strip(Lower(name))

\* get_muscle_activation: the catalog entry, or None
get_muscle_activation(exercise) ==
    LET normalized == normalize_exercise_name(exercise)
        idx == 1..Len(EXERCISE_MUSCLE_MAP)
        direct == {i \in idx : EXERCISE_MUSCLE_MAP[i].key = normalized}
    IN  IF direct # {} THEN Some(EXERCISE_MUSCLE_MAP[MinOf(direct)])
        ELSE
        LET fuzzy == {i \in idx : \/ Contains(normalized, EXERCISE_MUSCLE_MAP[i].key)
                                  \/ Contains(EXERCISE_MUSCLE_MAP[i].key, normalized)}
        IN  IF fuzzy # {} THEN Some(EXERCISE_MUSCLE_MAP[MinOf(fuzzy)]) ELSE None

\* weight = ex.get("duration_sec", 60) * (ex.get("reps", 10) / 10), times 10
SessionWeight(ex) == ex.duration_sec * ex.reps

\* The value a catalog entry gives a muscle: primary and secondary are both
\* added to the muscle's total.
RECURSIVE ItemsSum(_, _)
ItemsSum(items, muscle) ==
    IF items = <<>> THEN 0
    ELSE (IF Head(items)[1] = muscle THEN Head(items)[2] ELSE 0) + ItemsSum(Tail(items), muscle)

\* muscle_data = get_muscle_activation(ex["name"]) for each exercise of the list
RECURSIVE SessionMuscleData(_)
SessionMuscleData(exs) ==
    IF exs = <<>> THEN <<>>
    ELSE <<get_muscle_activation(Head(exs).name)>> \o SessionMuscleData(Tail(exs))

\* activation[muscle] after the first n exercises of the loop, times 1000
\* (values are in hundredths, weights in tenths); an exercise without
\* muscle_data is skipped
RECURSIVE SessionTotal(_, _, _, _)
SessionTotal(exs, data, n, muscle) ==
    IF n = 0 THEN 0
    ELSE SessionTotal(exs, data, n - 1, muscle)
         + (IF data[n] = None THEN 0
            ELSE (ItemsSum(data[n][1].primary, muscle)
                  + ItemsSum(data[n][1].secondary, muscle)) * SessionWeight(exs[n]))

\* total_weight after the first n exercises of the loop, times 10
RECURSIVE TotalWeight(_, _, _)
TotalWeight(exs, data, n) ==
    IF n = 0 THEN 0
    ELSE TotalWeight(exs, data, n - 1)
         + (IF data[n] = None THEN 0 ELSE SessionWeight(exs[n]))

\* A variant of the normalization that divides by the total weight, not by the
\* largest total.
NormalizedByTotalWeight(activation, total_weight, max_activation) ==
    IF total_weight > 0 /\ max_activation > 0
    THEN [m \in DOMAIN activation |-> FMin(Frac(activation[m], 100 * total_weight), FOne)]
    ELSE [m \in DOMAIN activation |-> Frac(activation[m], 1000)]

\* The result of calculate_session_activation from the totals of the loop on
NormalizedSession(activation, total_weight, max_activation) ==
    IF total_weight > 0 /\ max_activation > 0
    THEN [m \in DOMAIN activation |-> FMin(Frac(activation[m], max_activation), FOne)]
    ELSE [m \in DOMAIN activation |-> Frac(activation[m], 1000)]

\* The loop of calculate_session_activation over the looked-up exercises
SessionLoop(exs, data) ==
    LET activation == [m \in Range(MUSCLE_GROUPS) |-> SessionTotal(exs, data, Len(exs), m)]
    IN  NormalizedSession(activation, TotalWeight(exs, data, Len(exs)),
                          MaxOf({activation[m] : m \in DOMAIN activation}))

\* calculate_session_activation
calculate_session_activation(exs) == SessionLoop(exs, SessionMuscleData(exs))

IMBALANCE_PUSH_RATIO == <<3, 2>>     \* ratio > 1.5

IMBALANCE_PULL_RATIO == <<67, 100>>  \* ratio < 0.67

UNDERTRAINED_BELOW == <<3, 10>>      \* v < 0.3

\* total[muscle] += value for every session of the history that has the muscle
RECURSIVE HistoryTotal(_, _)
HistoryTotal(history, muscle) ==
    IF history = <<>> THEN FZero
    ELSE FAdd(HistoryTotal(SubSeq(history, 1, Len(history) - 1), muscle),
              DictGet(history[Len(history)], muscle, FZero))

\* sum(normalized.get(m, 0) for m in S) / len(S)
RECURSIVE SetSum(_, _)
SetSum(d, S) ==
    IF S = {} THEN FZero
    ELSE LET m == CHOOSE x \in S : TRUE
         IN  FAdd(DictGet(d, m, FZero), SetSum(d, S \ {m}))

CategoryMean(normalized, S) == FDivInt(SetSum(normalized, S), Cardinality(S))

RECURSIVE Undertrained(_, _, _)
Undertrained(normalized, max_val, muscles) ==
    IF muscles = <<>> THEN <<>>
    ELSE (IF FLess(normalized[Head(muscles)], UNDERTRAINED_BELOW) /\ FLess(FZero, max_val)
          THEN <<Head(muscles)>> ELSE <<>>)
         \o Undertrained(normalized, max_val, Tail(muscles))

\* analyze_muscle_balance
analyze_muscle_balance(activation_history_in) ==
    IF activation_history_in = <<>>
    THEN [status |-> "no_data", insights |-> <<>>]
    ELSE
    LET total == [m \in Range(MUSCLE_GROUPS) |-> HistoryTotal(activation_history_in, m)]
        max_val == FMaxOf(total, MUSCLE_GROUPS)
        normalized == [m \in DOMAIN total |->
                          IF FLess(FZero, max_val) THEN FDiv(total[m], max_val) ELSE FZero]
        push_total == CategoryMean(normalized, PUSH_MUSCLES)
        pull_total == CategoryMean(normalized, PULL_MUSCLES)
        leg_total == CategoryMean(normalized, LEG_MUSCLES)
        core_total == CategoryMean(normalized, CORE_MUSCLES)
        ratio == FDiv(push_total, pull_total)
        imbalance ==
            IF FLess(FZero, push_total) /\ FLess(FZero, pull_total)
            THEN IF FLess(IMBALANCE_PUSH_RATIO, ratio)
                 THEN <<[type |-> "imbalance", severity |-> "warning", ratio |-> ratio]>>
                 ELSE IF FLess(ratio, IMBALANCE_PULL_RATIO)
                 THEN <<[type |-> "imbalance", severity |-> "info", ratio |-> ratio]>>
                 ELSE <<>>
            ELSE <<>>
        undertrained == Undertrained(normalized, max_val, MUSCLE_GROUPS)
    IN  [status |-> "analyzed",
         muscle_totals |-> normalized,
         category_balance |-> [c \in {"push", "pull", "legs", "core"} |->
                                  CASE c = "push" -> push_total
                                    [] c = "pull" -> pull_total
                                    [] c = "legs" -> leg_total
                                    [] c = "core" -> core_total],
         insights |-> imbalance \o
                      (IF undertrained # <<>>
                       THEN <<[type |-> "undertrained", severity |-> "warning",
                               muscles |-> undertrained]>>
                       ELSE <<>>)]

(***************************************************************************)
(* The parts of the state a specification does not exercise stay idle.     *)
(***************************************************************************)
RepIdle ==
    /\ analyzer = "yolo"
    /\ angle_history = <<>>
    /\ fps = 30
    /\ rep_result = <<>>
    /\ rep_loop = None

MuscleIdle ==
    /\ exercises = <<>>
    /\ activations = <<>>
    /\ workout_totals = None
    /\ analysis = None
    /\ session_activation = None
    /\ activation_history = <<>>
    /\ balance = None

SegmentIdle ==
    /\ segment = [frames |-> <<>>, fps |-> 30, exercise_name |-> ""]
    /\ segment_pc = "captured"
    /\ metrics = None

PipelineIdle ==
    /\ video = [file_path |-> FALSE, fps |-> 30, detected |-> <<>>]
    /\ pipeline_exercises = <<>>
    /\ futures = <<>>
    /\ pipeline_pc = "detected"
    /\ muscle_activation = None

(***************************************************************************)
(* Inputs of the rep counter                                               *)
(***************************************************************************)
Analyzers == {"yolo", "mediapipe"}

\* Short series: every series of at most MaxLen samples that takes the two
\* values 60 and 60 + range, for the ranges below (19 and 20 sit on either
\* side of the flat-signal test).
ShortRanges == {15, 19, 20, 110}

ShortSeries ==
    UNION { { [i \in 1..n |-> 60 + p[i] * r] : p \in [1..n -> {0, 1}] } :
            <<n, r>> \in (0..MaxLen) \X ShortRanges }

ShortFps == {2, 6}

\* One period (60 samples: 2 s at 30 fps) of a sine between 60 and 170 degrees,
\* rounded to whole degrees.
SineTable ==
    <<115, 121, 126, 132, 137, 142, 147, 152, 156, 159, 163, 165, 167, 169, 170,
      170, 170, 169, 167, 165, 163, 159, 156, 152, 147, 142, 137, 132, 126, 121,
      115, 109, 104, 98, 93, 88, 83, 78, 74, 71, 67, 65, 63, 61, 60,
      60, 60, 61, 63, 65, 67, 71, 74, 78, 83, 88, 93, 98, 104, 109>>

OscPeriod == 2 * 30        \* samples per period: 2 s at 30 fps

OscSamples == 20 * 30      \* 20 s at 30 fps

OscShapes == {"sine", "triangle", "square"}

\* Sample k (0-based) of the oscillation of the given shape.
Wave(shape, k) ==
    LET j == k % OscPeriod
        half == OscPeriod \div 2
    IN  CASE shape = "sine" -> SineTable[j + 1]
          [] shape = "triangle" ->
                IF j <= half THEN 60 + (110 * j) \div half
                ELSE 170 - (110 * (j - half)) \div half
          [] shape = "square" -> IF j < half THEN 170 ELSE 60

Oscillation(shape, phase) == [k \in 1..OscSamples |-> Wave(shape, k - 1 + phase)]

OscSeries ==
    { Oscillation(shape, phase) : <<shape, phase>> \in OscShapes \X (0..(OscPeriod - 1)) }

IsOscillation(s) == Len(s) = OscSamples

(***************************************************************************)
(* Specification of the rep counter: the inputs are drawn at the start and *)
(* the analyzer's _count_reps is applied to them.                          *)
(***************************************************************************)
InitRep ==
    /\ analyzer \in Analyzers
    /\ \/ angle_history \in ShortSeries /\ fps \in ShortFps
       \/ angle_history \in OscSeries /\ fps = 30
    /\ rep_result = <<>>
    /\ rep_loop = None
    /\ MuscleIdle
    /\ SegmentIdle
    /\ PipelineIdle

CountRepsCall ==
    /\ rep_result = <<>>
    /\ rep_result' = <<CountReps(analyzer, angle_history, fps)>>
    /\ UNCHANGED <<analyzer, angle_history, fps, rep_loop>>
    /\ UNCHANGED muscleVars
    /\ UNCHANGED segmentVars
    /\ UNCHANGED pipelineVars

NextRep == CountRepsCall

SpecRep == InitRep /\ [][NextRep]_vars

\* max - min of a series (0 for the empty series)
SeriesRange(s) == IF s = <<>> THEN 0 ELSE SeqMax(s) - SeqMin(s)

\* C3: for every angle series whose range (max - min) is below 20 degrees,
\* whatever its length and fps, the rep counter returns rep_count = 0 and no
\* rep durations.
C3_FlatSeriesNoReps ==
    (rep_result # <<>> /\ SeriesRange(angle_history) < 20)
        => (rep_result[1].rep_count = 0 /\ rep_result[1].rep_durations = <<>>)

\* A series of at least 10 samples and range 19 has been counted: no rep.
C3_Witness ==
    /\ rep_result # <<>>
    /\ Len(angle_history) >= 10
    /\ SeriesRange(angle_history) = 19
    /\ rep_result[1].rep_count = 0

\* C4: for every angle series with fewer than 10 samples, whatever its values,
\* the rep counter returns rep_count = 0, in YOLOPoseAnalyzer and in
\* PoseAnalyzer.
C4_ShortSeriesNoReps ==
    (rep_result # <<>> /\ Len(angle_history) < 10) => rep_result[1].rep_count = 0

\* C5: an oscillation between 60 and 170 degrees with a period of 60 samples,
\* 600 samples long at 30 fps, is counted as 9, 10 or 11 reps, whatever the
\* phase at which it starts.
C5_OscillationTenReps ==
    (rep_result # <<>> /\ IsOscillation(angle_history) /\ fps = 30)
        => rep_result[1].rep_count \in {9, 10, 11}

\* The sine that starts at its mean, rising, has been counted by PoseAnalyzer:
\* 10 reps.
C5_Witness ==
    /\ rep_result # <<>>
    /\ analyzer = "mediapipe"
    /\ angle_history = Oscillation("sine", 0)
    /\ rep_result[1].rep_count = 10

(***************************************************************************)
(* Actions of the muscle mapping: one call each                            *)
(***************************************************************************)
\* activation = mapper.get_activation(...); activations.append(activation)
GetActivation(e) ==
    /\ workout_totals = None
    /\ session_activation = None
    /\ exercises' = Append(exercises, e)
    /\ activations' = Append(activations,
                             get_activation(e.name, e.variation, e.pose_metrics, e.duration_sec))
    /\ UNCHANGED <<workout_totals, analysis, session_activation, activation_history, balance>>
    /\ UNCHANGED repVars
    /\ UNCHANGED segmentVars
    /\ UNCHANGED pipelineVars

\* totals = mapper.aggregate_workout(activations).  The script of
\* step4_muscle_mapper.py and the service are two programs: a list of exercises
\* is aggregated by one of them.
AggregateWorkout ==
    /\ workout_totals = None
    /\ session_activation = None
    /\ workout_totals' = Some(aggregate_workout(activations, TRUE))
    /\ UNCHANGED <<exercises, activations, analysis, session_activation,
                   activation_history, balance>>
    /\ UNCHANGED repVars
    /\ UNCHANGED segmentVars
    /\ UNCHANGED pipelineVars

\* mapper.analyze_balance(totals)
AnalyzeBalance ==
    /\ workout_totals # None
    /\ analysis = None
    /\ analysis' = Some(analyze_balance(workout_totals[1]))
    /\ UNCHANGED <<exercises, activations, workout_totals, session_activation,
                   activation_history, balance>>
    /\ UNCHANGED repVars
    /\ UNCHANGED segmentVars
    /\ UNCHANGED pipelineVars

\* muscle_activation = calculate_session_activation(exercise_data), stored with
\* the workout
CalculateSessionActivation ==
    /\ session_activation = None
    /\ workout_totals = None
    /\ LET v == calculate_session_activation(exercises)
       IN  /\ session_activation' = Some(v)
           /\ activation_history' = Append(activation_history, v)
    /\ UNCHANGED <<exercises, activations, workout_totals, analysis, balance>>
    /\ UNCHANGED repVars
    /\ UNCHANGED segmentVars
    /\ UNCHANGED pipelineVars

\* analyze_muscle_balance(get_muscle_activation_history(...))
AnalyzeMuscleBalance ==
    /\ balance = None
    /\ activation_history # <<>>
    /\ balance' = Some(analyze_muscle_balance(activation_history))
    /\ UNCHANGED <<exercises, activations, workout_totals, analysis,
                   session_activation, activation_history>>
    /\ UNCHANGED repVars
    /\ UNCHANGED segmentVars
    /\ UNCHANGED pipelineVars

(***************************************************************************)
(* Specification of a workout: exercises are mapped one by one, then the   *)
(* session is aggregated and analysed, by MuscleMapper and by muscle_map.  *)
(***************************************************************************)
ExerciseInputs ==
    { [name |-> "squat", variation |-> "", pose_metrics |-> None,
       duration_sec |-> 180, reps |-> 24],
      [name |-> "bench press", variation |-> "", pose_metrics |-> None,
       duration_sec |-> 150, reps |-> 18],
      [name |-> "barbell row", variation |-> "", pose_metrics |-> None,
       duration_sec |-> 120, reps |-> 15],
      [name |-> "Barbell Squat", variation |-> "high bar, narrow stance",
       pose_metrics |-> Some(65), duration_sec |-> 0, reps |-> 0],
      [name |-> "zzz_not_an_exercise", variation |-> "", pose_metrics |-> None,
       duration_sec |-> 60, reps |-> 10] }

InitWorkout == RepIdle /\ MuscleIdle /\ SegmentIdle /\ PipelineIdle

WorkoutGetActivation ==
    \E e \in ExerciseInputs : Len(exercises) < MaxExercises /\ GetActivation(e)

NextWorkout ==
    \/ WorkoutGetActivation
    \/ AggregateWorkout
    \/ AnalyzeBalance
    \/ CalculateSessionActivation
    \/ AnalyzeMuscleBalance

SpecWorkout == InitWorkout /\ [][NextWorkout]_vars

\* C1: every value of the activation vector returned by get_activation is in
\* [0,1] (0..100 hundredths), and every value of the normalized session vector
\* returned by aggregate_workout and by calculate_session_activation is in
\* [0,1].
C1_ActivationInUnitInterval ==
    /\ \A i \in 1..Len(activations) :
           \A k \in DOMAIN activations[i].activation :
               activations[i].activation[k] \in 0..100
    /\ workout_totals # None =>
           \A m \in DOMAIN workout_totals[1] : InUnitInterval(workout_totals[1][m])
    /\ session_activation # None =>
           \A m \in DOMAIN session_activation[1] : InUnitInterval(session_activation[1][m])

\* A mapped exercise whose modifiers took a muscle to the upper limit, in a
\* list of three exercises that an aggregator has normalized to a largest
\* value of 1.
C1_Witness ==
    /\ Len(exercises) = 3
    /\ \E i \in 1..Len(activations) :
           /\ activations[i].modifiers_applied # <<>>
           /\ \E k \in DOMAIN activations[i].activation : activations[i].activation[k] = 100
    /\ \/ /\ workout_totals # None
          /\ \E m \in DOMAIN workout_totals[1] : workout_totals[1][m] = FOne
       \/ /\ session_activation # None
          /\ \E m \in DOMAIN session_activation[1] : session_activation[1][m] = FOne

ListOrders(n) == {p \in [1..n -> 1..n] : \A i, j \in 1..n : i # j => p[i] # p[j]}

Permuted(s, p) == [i \in 1..Len(s) |-> s[p[i]]]

\* C2: the session aggregators are order-independent: every permutation of
\* the list of exercises gives the normalized per-muscle vector that the list
\* gave, in aggregate_workout and in calculate_session_activation.
C2_OrderIndependent ==
    /\ workout_totals # None =>
           \A p \in ListOrders(Len(activations)) :
               aggregate_workout(Permuted(activations, p), TRUE) = workout_totals[1]
    /\ session_activation # None =>
           \A p \in ListOrders(Len(exercises)) :
               calculate_session_activation(Permuted(exercises, p)) = session_activation[1]

\* Three different known exercises of different durations have been
\* aggregated.
C2_Witness ==
    /\ Len(exercises) = 3
    /\ \A i \in 1..3 : activations[i].confidence = 100
    /\ \A i, j \in 1..3 : i # j =>
           /\ activations[i].matched_exercise # activations[j].matched_exercise
           /\ exercises[i].duration_sec # exercises[j].duration_sec
    /\ workout_totals # None \/ session_activation # None

\* The session of the end-to-end example
BalancedSession ==
    <<[name |-> "squat", variation |-> "", pose_metrics |-> None,
       duration_sec |-> 180, reps |-> 24],
      [name |-> "bench press", variation |-> "", pose_metrics |-> None,
       duration_sec |-> 150, reps |-> 18],
      [name |-> "barbell row", variation |-> "", pose_metrics |-> None,
       duration_sec |-> 120, reps |-> 15]>>

\* The muscles that fewer than three muscles exceed
TopThree(v) ==
    {m \in DOMAIN v : Cardinality({k \in DOMAIN v : FLess(v[m], v[k])}) < 3}

RatioInBalance(push, pull) ==
    /\ FLess(FZero, pull)
    /\ FLeq(<<67, 100>>, FDiv(push, pull))
    /\ FLeq(FDiv(push, pull), <<3, 2>>)

\* C10: the session squat 180 s / 24 reps, bench press 150 s / 18 reps,
\* barbell row 120 s / 15 reps, aggregated and analysed, has a push/pull ratio
\* within [0.67, 1.5], no push/pull imbalance is reported, and its three
\* highest-activated muscles are among quadriceps, glutes, chest and lats.
C10_BalancedSession ==
    /\ (exercises = BalancedSession /\ balance # None) =>
           /\ RatioInBalance(balance[1].category_balance["push"],
                             balance[1].category_balance["pull"])
           /\ \A i \in 1..Len(balance[1].insights) :
                  balance[1].insights[i].type # "imbalance"
           /\ TopThree(session_activation[1])
                  \subseteq {"quadriceps", "glutes", "chest", "lats"}
    /\ (exercises = BalancedSession /\ analysis # None) =>
           /\ RatioInBalance(analysis[1].category_totals["push"],
                             analysis[1].category_totals["pull"])
           /\ analysis[1].imbalances = <<>>
           /\ TopThree(workout_totals[1]) \subseteq {"quads", "glutes", "chest", "lats"}

\* The vector v is the totals divided by their maximum max_total when that is
\* positive, with a muscle at exactly 1, and all zero when it is zero.
NormalizedFrom(v, total, max_total) ==
    IF max_total > 0
    THEN /\ \E m \in DOMAIN v : v[m] = FOne
         /\ \A m \in DOMAIN v : v[m] = Frac(total[m], max_total)
    ELSE \A m \in DOMAIN v : v[m] = FZero

\* The weighted totals of the mapper's aggregation, before normalization
MapperRawTotals(exs) == [m \in Range(MAPPER_MUSCLE_GROUPS) |-> WorkoutTotal(exs, m)]

\* The weighted totals of the session aggregation, before normalization
SessionRawTotals(exs, data) ==
    [m \in Range(MUSCLE_GROUPS) |-> SessionTotal(exs, data, Len(exs), m)]

LargestOf(total) == MaxOf({total[m] : m \in DOMAIN total})

\* C13: after session normalization, if the maximum weighted muscle total is
\* positive then at least one muscle reads exactly 1.0 and every muscle equals
\* its total divided by that maximum; if the maximum is zero every muscle value
\* is 0.  In aggregate_workout and in calculate_session_activation.
C13_NormalizedByMaximum ==
    /\ workout_totals # None =>
           NormalizedFrom(workout_totals[1], MapperRawTotals(activations),
                          LargestOf(MapperRawTotals(activations)))
    /\ session_activation # None =>
           NormalizedFrom(session_activation[1],
                          SessionRawTotals(exercises, SessionMuscleData(exercises)),
                          LargestOf(SessionRawTotals(exercises, SessionMuscleData(exercises))))

\* calculate_session_activation has normalized three exercises: a muscle reads
\* 1 and another one lies strictly between 0 and 1.
C13_Witness ==
    /\ Len(exercises) = 3
    /\ session_activation # None
    /\ \E m \in DOMAIN session_activation[1] : session_activation[1][m] = FOne
    /\ \E m \in DOMAIN session_activation[1] :
           /\ FLess(FZero, session_activation[1][m])
           /\ FLess(session_activation[1][m], FOne)

(***************************************************************************)
(* Specification of the lookup: one name is mapped by get_activation, with *)
(* no variation and no pose metrics.  The names are every name and alias   *)
(* of the catalog in five spellings, and names the catalog does not list.  *)
(***************************************************************************)
UpperChar(c) ==
    LET hit == {i \in 1..Len(LowerCase) : CharAt(LowerCase, i) = c}
    IN  IF hit = {} THEN c ELSE CharAt(UpperCase, CHOOSE i \in hit : TRUE)

RECURSIVE Upper(_)
Upper(s) == IF s = "" THEN "" ELSE UpperChar(CharAt(s, 1)) \o Upper(Tail(s))

\* Every name and alias the catalog lists, with the entry that lists it
CatalogNames ==
    UNION { {[text |-> a, entry |-> e.name] : a \in {e.name} \cup Range(e.aliases)} :
            e \in Range(EXERCISE_DATABASE) }

Spellings(a) == {a, Upper(a), Replace(a, " ", "-"), Replace(a, " ", "_"), "  " \o a \o " "}

CatalogSpellings ==
    UNION { {[text |-> t, entry |-> q.entry] : t \in Spellings(q.text)} : q \in CatalogNames }

\* Names the catalog does not list: some are related to no alias, the others
\* hold an alias, are held by one or share a word with one.
OtherNames ==
    {"zzz_not_an_exercise", "ZZZ-Not-An-Exercise", "  qwerty  ", "kettlebell swing",
     "burpee", "jumping jacks", "box jump", "heavy bag boxing",
     "cable", "weighted squat jump", "walking", "rope", "the plank hold", "zzz row", "q",
     "weighted bulgarian split squat", "", "   "}

LookupNames == {q.text : q \in CatalogSpellings} \cup OtherNames

LookupInput(n) ==
    [name |-> n, variation |-> "", pose_metrics |-> None, duration_sec |-> 60, reps |-> 10]

InitLookup == RepIdle /\ MuscleIdle /\ SegmentIdle /\ PipelineIdle

LookupGetActivation ==
    \E n \in LookupNames : exercises = <<>> /\ GetActivation(LookupInput(n))

NextLookup == LookupGetActivation

SpecLookup == InitLookup /\ [][NextLookup]_vars

\* C7: every alias listed in a catalog entry, and the entry's canonical name,
\* in any spelling of case, surrounding whitespace, '-' and '_', resolves to
\* that entry, so every alias of an entry yields the entry's base activation
\* when no modifier applies.
C7_AliasesResolve ==
    \A i \in 1..Len(exercises) :
        \A q \in CatalogSpellings :
            q.text = exercises[i].name =>
                /\ activations[i].matched_exercise = q.entry
                /\ activations[i].activation = BaseActivation(Entry(q.entry))

\* The alias "bb squat", written "BB SQUAT", has been mapped to "barbell squat".
C7_Witness ==
    /\ exercises = <<LookupInput("BB SQUAT")>>
    /\ activations[1].matched_exercise = "barbell squat"
    /\ activations[1].activation = BaseActivation(Entry("barbell squat"))
    /\ activations[1].modifiers_applied = <<>>

\* The normalized name equals no key of alias_map, neither holds one nor is
\* held by one, and shares no word with one.
UnrelatedNormalized(normalized) ==
    \A i \in 1..Len(alias_map) :
        /\ alias_map[i].alias # normalized
        /\ ~Contains(alias_map[i].alias, normalized)
        /\ ~Contains(normalized, alias_map[i].alias)
        /\ SplitWords(normalized) \cap SplitWords(alias_map[i].alias) = {}

Unrelated(name) == UnrelatedNormalized(normalize_name(name))

\* C8: for every name that equals no alias, is in no substring relation with
\* an alias and shares no word with an alias, get_activation returns the
\* unknown sentinel: matched_exercise "unknown", confidence 0.
C8_UnknownSentinel ==
    \A i \in 1..Len(exercises) :
        Unrelated(exercises[i].name) =>
            /\ activations[i].matched_exercise = "unknown"
            /\ activations[i].confidence = 0

\* "zzz_not_an_exercise" is related to no alias and has been mapped to the
\* sentinel.
C8_Witness ==
    /\ exercises = <<LookupInput("zzz_not_an_exercise")>>
    /\ Unrelated("zzz_not_an_exercise")
    /\ activations[1].matched_exercise = "unknown"
    /\ activations[1].confidence = 0
    /\ activations[1].activation = [m \in {"unknown"} |-> 100]

(***************************************************************************)
(* Specification of the balance analyses: a normalized vector with given   *)
(* push and pull levels is analysed by MuscleMapper.analyze_balance and,   *)
(* as a one-session history, by analyze_muscle_balance.                    *)
(***************************************************************************)
\* Levels in thousandths; 666..670 surround 0.667 and 0.67, and 900/600 and
\* 901/600 sit at and above 1.5.
BalanceLevels == {0, 300, 500, 600, 666, 667, 668, 670, 900, 901, 1000}

\* Totals of the mapper with chest (push) at p, lats (pull) at q and quads at 1
MapperTotals(p, q) ==
    [m \in Range(MAPPER_MUSCLE_GROUPS) |->
        IF m = "chest" THEN Frac(p, 1000)
        ELSE IF m = "lats" THEN Frac(q, 1000)
        ELSE IF m = "quads" THEN FOne
        ELSE FZero]

\* A session vector with every push muscle at p, every pull muscle at q and
\* quadriceps at 1
SessionVector(p, q) ==
    [m \in Range(MUSCLE_GROUPS) |->
        IF m \in PUSH_MUSCLES THEN Frac(p, 1000)
        ELSE IF m \in PULL_MUSCLES THEN Frac(q, 1000)
        ELSE IF m = "quadriceps" THEN FOne
        ELSE FZero]

InitBalance ==
    /\ RepIdle
    /\ SegmentIdle
    /\ PipelineIdle
    /\ exercises = <<>>
    /\ activations = <<>>
    /\ analysis = None
    /\ session_activation = None
    /\ balance = None
    /\ \E p \in BalanceLevels, q \in BalanceLevels :
           /\ workout_totals = Some(MapperTotals(p, q))
           /\ activation_history = <<SessionVector(p, q)>>

NextBalance ==
    \/ AnalyzeBalance
    \/ AnalyzeMuscleBalance

SpecBalance == InitBalance /\ [][NextBalance]_vars

PushDominant(a) == \E i \in 1..Len(a.imbalances) : a.imbalances[i].type = "push_dominant"

PullDominant(a) == \E i \in 1..Len(a.imbalances) : a.imbalances[i].type = "pull_dominant"

\* analyze_muscle_balance reports the push-heavy imbalance with severity
\* "warning" and the pull-heavy one with severity "info".
PushHeavy(b) ==
    \E i \in 1..Len(b.insights) :
        b.insights[i].type = "imbalance" /\ b.insights[i].severity = "warning"

PullHeavy(b) ==
    \E i \in 1..Len(b.insights) :
        b.insights[i].type = "imbalance" /\ b.insights[i].severity = "info"

\* With push > 0 and pull > 0: the push flag is reported exactly when
\* push / pull > 3/2, the pull flag exactly when push / pull < limit, and never
\* both.
FlagsFollowRatio(push, pull, push_flag, pull_flag, limit) ==
    (FLess(FZero, push) /\ FLess(FZero, pull)) =>
        /\ push_flag <=> FLess(<<3, 2>>, FDiv(push, pull))
        /\ pull_flag <=> FLess(FDiv(push, pull), limit)
        /\ ~(push_flag /\ pull_flag)

BalanceFlagsFollowRatio(limit) ==
    /\ analysis # None =>
           FlagsFollowRatio(analysis[1].category_totals["push"],
                            analysis[1].category_totals["pull"],
                            PushDominant(analysis[1]), PullDominant(analysis[1]), limit)
    /\ balance # None =>
           FlagsFollowRatio(balance[1].category_balance["push"],
                            balance[1].category_balance["pull"],
                            PushHeavy(balance[1]), PullHeavy(balance[1]), limit)

\* C9 as stated: with push > 0 and pull > 0, a push-dominant imbalance is
\* reported exactly when ratio > 1.5, a pull-dominant one exactly when
\* ratio < 0.667, and never both.
C9_FlagsAt0667 == BalanceFlagsFollowRatio(<<667, 1000>>)

\* C9, amended: with push > 0 and pull > 0, a push-dominant imbalance is
\* reported exactly when ratio > 1.5, a pull-dominant one exactly when
\* ratio < 0.67, and never both.
C9_FlagsAt067 == BalanceFlagsFollowRatio(<<67, 100>>)

\* Both analyses have reported the pull-dominant imbalance for push 0.668 and
\* pull 1.
C9_Witness ==
    /\ analysis # None
    /\ balance # None
    /\ analysis[1].category_totals["push"] = Frac(668, 1000)
    /\ analysis[1].category_totals["pull"] = FOne
    /\ PullDominant(analysis[1])
    /\ balance[1].category_balance["push"] = Frac(668, 1000)
    /\ balance[1].category_balance["pull"] = FOne
    /\ PullHeavy(balance[1])

(***************************************************************************)
(* Specification of the pose analysis of a segment: the frames' joint      *)
(* angles are drawn at the start and analyze_segment is applied to them.   *)
(***************************************************************************)
\* The angle a joint moves through: "still" holds 100 degrees; the other
\* shapes rest at 60 degrees and rise to 130 degrees in single frames.
SegmentShapes == {"still", "steady", "drift", "uneven"}

\* The frames (1-based) at which the shape is at 130 degrees
HighFrames(shape) ==
    IF shape = "steady" THEN {t \in 1..(MaxFrames + 1) : t % 3 = 2}
    ELSE IF shape = "drift" THEN {2, 6, 12}
    ELSE IF shape = "uneven" THEN {2, 5, 16}
    ELSE {}

Level(shape, t) ==
    IF shape = "still" THEN 100 ELSE IF t \in HighFrames(shape) THEN 130 ELSE 60

\* Which joints the detector reports in frame t
Detections == {"all", "left", "knees", "flicker", "none"}

Detected(detection, t) ==
    IF detection = "all" THEN Range(JOINT_ANGLES)
    ELSE IF detection = "left" THEN {"left_elbow", "left_shoulder", "left_hip", "left_knee"}
    ELSE IF detection = "knees" THEN {"left_knee", "right_knee"}
    ELSE IF detection = "flicker"
    THEN (IF t = 3 THEN {}
          ELSE IF t % 2 = 0 THEN Range(JOINT_ANGLES) \ {"right_knee"}
          ELSE Range(JOINT_ANGLES))
    ELSE {}

\* How many degrees the right joint of each pair is off the left one
SideOffsets ==
    { [elbow |-> 0, knee |-> 0, shoulder |-> 0, hip |-> 0],
      [elbow |-> 12, knee |-> 0, shoulder |-> 0, hip |-> 0],
      [elbow |-> 36, knee |-> 0, shoulder |-> 0, hip |-> 0],
      [elbow |-> -20, knee |-> 0, shoulder |-> 16, hip |-> 0],
      [elbow |-> 10, knee |-> 20, shoulder |-> 30, hip |-> 40],
      [elbow |-> 30, knee |-> 30, shoulder |-> 30, hip |-> 30],
      [elbow |-> 40, knee |-> 40, shoulder |-> 40, hip |-> 40] }

FrameAngles(shape, detection, offsets, t) ==
    [j \in Detected(detection, t) |->
        IF SubSeq(j, 1, 5) = "left_" THEN Level(shape, t)
        ELSE Level(shape, t) + offsets[ReplaceAll(j, "right_", "")]]

SegmentLengths == {0, 1, MIN_SAMPLES - 1, MIN_SAMPLES, MaxFrames}

SegmentFps == {1, 2}

SegmentNames ==
    {"Barbell Squat", "walking lunge", "Bench Press", "bicep curl", "deadlift",
     "pull-up", "plank"}

InitSegment ==
    /\ RepIdle
    /\ MuscleIdle
    /\ PipelineIdle
    /\ \E shape \in SegmentShapes, detection \in Detections, offsets \in SideOffsets,
          n \in SegmentLengths, f \in SegmentFps, name \in SegmentNames :
           segment = [frames |-> [t \in 1..n |-> FrameAngles(shape, detection, offsets, t)],
                      fps |-> f,
                      exercise_name |-> name]
    /\ segment_pc = "captured"
    /\ metrics = None

AnalyzeSegment ==
    /\ segment_pc = "captured"
    /\ segment_pc' = "analyzed"
    /\ metrics' = analyze_segment(segment.frames, segment.fps, segment.exercise_name)
    /\ UNCHANGED segment
    /\ UNCHANGED repVars
    /\ UNCHANGED muscleVars
    /\ UNCHANGED pipelineVars

NextSegment == AnalyzeSegment

SpecSegment == InitSegment /\ [][NextSegment]_vars

SymmetryPairs == <<"elbow", "knee", "shoulder", "hip">>

\* The pairs for which both sides have samples
AvailablePairs(m) ==
    SelectSeq(SymmetryPairs,
              LAMBDA p : /\ m.joint_angles["left_" \o p] # <<>>
                         /\ m.joint_angles["right_" \o p] # <<>>)

\* The average over the available pairs of |left mean - right mean|
AverageDifference(m) ==
    FDivInt(FSum([p \in Range(SymmetryPairs) |->
                     FAbs(FSub(m.avg_angles["left_" \o p], m.avg_angles["right_" \o p]))],
                 AvailablePairs(m)),
            Len(AvailablePairs(m)))

ScoreFollowsDifference(score, avg_diff) ==
    /\ avg_diff = FZero => score = FOne
    /\ FLeq(<<30, 1>>, avg_diff) => score = FZero
    /\ (FLess(FZero, avg_diff) /\ FLess(avg_diff, <<30, 1>>))
           => score = FSub(FOne, FDiv(avg_diff, <<30, 1>>))

\* C6: the symmetry score of an analysed segment is 1.0 when the average
\* left/right mean-angle difference over the available joint pairs is 0
\* degrees, 0.0 when it is 30 degrees or more, 1 - avg_diff/30 in between, and
\* always within [0,1].
C6_SymmetryScore ==
    (segment_pc = "analyzed" /\ metrics # None) =>
        /\ InUnitInterval(metrics[1].symmetry_score)
        /\ AvailablePairs(metrics[1]) # <<>> =>
               ScoreFollowsDifference(metrics[1].symmetry_score,
                                      AverageDifference(metrics[1]))

\* A segment with all four pairs, 25 degrees apart on average, has been
\* analysed: its score is 1/6.
C6_Witness ==
    /\ segment_pc = "analyzed"
    /\ metrics # None
    /\ Len(AvailablePairs(metrics[1])) = 4
    /\ AverageDifference(metrics[1]) = <<25, 1>>
    /\ metrics[1].symmetry_score = <<1, 6>>

\* The rep signal of the analysed segment is shorter than 10 samples or its
\* range is below 20 degrees.
InsufficientRepSignal(signal) ==
    \/ Len(signal.series) < 10
    \/ SeqMax(signal.series) - SeqMin(signal.series) < 20 * signal.unit

\* The exercise belongs to no family with a range-of-motion rule.
NoRomFamily(exercise_lower) ==
    /\ ~Contains(exercise_lower, "squat")
    /\ ~Contains(exercise_lower, "lunge")
    /\ ~Contains(exercise_lower, "press")
    /\ ~Contains(exercise_lower, "curl")

\* The analysed segment has too little data for rep counting, no joint pair to
\* compare and no range-of-motion rule.
NeutralCase ==
    /\ segment_pc = "analyzed"
    /\ metrics # None
    /\ InsufficientRepSignal(PrimarySignal(metrics[1].joint_angles,
                                           MovementProxy(segment.frames),
                                           Lower(segment.exercise_name)))
    /\ AvailablePairs(metrics[1]) = <<>>
    /\ NoRomFamily(Lower(segment.exercise_name))

\* C12: a segment with insufficient data for rep counting (rep signal shorter
\* than 10 samples or with range below 20 degrees) and no other scoring
\* evidence yields the neutral result: rep_count = 0 and quality score
\* exactly 1.0.
C12_NeutralResult ==
    NeutralCase => (metrics[1].rep_count = 0 /\ metrics[1].avg_quality_score = 100)


(***************************************************************************)
(* Specification of the loop of _count_reps, one sample per step: the      *)
(* series, the fps and the analyzer are drawn at the start; the call       *)
(* enters the loop (or returns early), processes one sample per step and   *)
(* returns.  rep_loop keeps, next to the loop variables, the index of      *)
(* every counted sample and the cooldown each sample met.                  *)
(***************************************************************************)
MaxFree == 6

\* Three levels: with 60 and 130 both in a series, 60 normalizes to 0.0,
\* 90 to 0.43 and 130 to 1.0.
RunLevels == {60, 90, 130}

RunTails == {<<60, 130, 60, 130>>, <<130, 130, 60, 60>>}

\* A free part of MaxFree samples followed by one of the tails, and two
\* series that return before the loop: a short one and a flat one.
RunSeries ==
    { p \o t : <<p, t>> \in [1..MaxFree -> RunLevels] \X RunTails }
        \cup {<<60, 130, 60>>, [i \in 1..(MaxFree + 4) |-> 90]}

RunFps == {1, 3}

InitRun ==
    /\ analyzer \in Analyzers
    /\ angle_history \in RunSeries
    /\ fps \in RunFps
    /\ rep_result = <<>>
    /\ rep_loop = None
    /\ MuscleIdle
    /\ SegmentIdle
    /\ PipelineIdle

\* The early returns of _count_reps, else the loop variables before the
\* first sample.
CountRepsEnter ==
    /\ rep_result = <<>>
    /\ rep_loop = None
    /\ IF \/ (IF analyzer = "yolo" THEN YoloTooShort(angle_history)
                                   ELSE MediapipeTooShort(angle_history))
          \/ SignalTooFlat(SeqMin(angle_history), SeqMax(angle_history), 1)
       THEN /\ rep_result' = <<[rep_count |-> 0, rep_durations |-> <<>>]>>
            /\ UNCHANGED rep_loop
       ELSE /\ rep_loop' = Some([i |-> 0,
                                 st |-> IF analyzer = "yolo" THEN YoloStart
                                                             ELSE MediapipeStart,
                                 counted_at |-> <<>>,
                                 cooldown_at |-> <<>>])
            /\ UNCHANGED rep_result
    /\ UNCHANGED <<analyzer, angle_history, fps>>
    /\ UNCHANGED muscleVars
    /\ UNCHANGED segmentVars
    /\ UNCHANGED pipelineVars

\* for i, val in enumerate(normalized): one iteration
CountRepsIterate ==
    /\ rep_result = <<>>
    /\ rep_loop # None
    /\ rep_loop[1].i < Len(angle_history)
    /\ LET l == rep_loop[1]
           v == angle_history[l.i + 1]
           sig_min == SeqMin(angle_history)
           sig_max == SeqMax(angle_history)
           next == IF analyzer = "yolo"
                   THEN YoloStep(l.st, l.i, v, sig_min, sig_max, fps)
                   ELSE MediapipeStep(l.st, l.i, v, sig_min, sig_max, fps)
       IN  rep_loop' = Some([i |-> l.i + 1,
                             st |-> next,
                             counted_at |-> IF next.reps > l.st.reps
                                            THEN Append(l.counted_at, l.i)
                                            ELSE l.counted_at,
                             cooldown_at |-> Append(l.cooldown_at, l.st.cooldown)])
    /\ UNCHANGED <<analyzer, angle_history, fps, rep_result>>
    /\ UNCHANGED muscleVars
    /\ UNCHANGED segmentVars
    /\ UNCHANGED pipelineVars

\* return rep_count, rep_durations (PoseAnalyzer returns reps alone)
CountRepsReturn ==
    /\ rep_result = <<>>
    /\ rep_loop # None
    /\ rep_loop[1].i = Len(angle_history)
    /\ rep_result' = <<[rep_count |-> rep_loop[1].st.reps,
                        rep_durations |-> IF analyzer = "yolo"
                                          THEN rep_loop[1].st.rep_durations
                                          ELSE <<>>]>>
    /\ UNCHANGED <<analyzer, angle_history, fps, rep_loop>>
    /\ UNCHANGED muscleVars
    /\ UNCHANGED segmentVars
    /\ UNCHANGED pipelineVars

NextRun ==
    \/ CountRepsEnter
    \/ CountRepsIterate
    \/ CountRepsReturn

SpecRun == InitRun /\ [][NextRun]_vars

\* The stepped loop returns what the call returns.
RunAgreesWithCall ==
    rep_result # <<>> => rep_result[1] = CountReps(analyzer, angle_history, fps)

\* Sample k (0-based) of the series in play, normalized, lies below 0.3.
NormalizedBelow03(k) ==
    10 * (angle_history[k + 1] - SeqMin(angle_history))
        < 3 * (SeqMax(angle_history) - SeqMin(angle_history))

\* Sample k (0-based) of the series in play, normalized, lies above 0.7.
NormalizedAbove07(k) ==
    10 * (angle_history[k + 1] - SeqMin(angle_history))
        > 7 * (SeqMax(angle_history) - SeqMin(angle_history))


\* The indices (0-based) of the samples counted so far, in order.
CountedAt == rep_loop[1].counted_at

\* C17: between two consecutively counted reps the series has a sample whose
\* normalized value is below 0.3, in both counters; so a signal that stays
\* at or above 0.3 after a counted rep is never counted a second time.
C17_LowBetweenCounts ==
    rep_loop # None =>
        \A n \in 1..(Len(CountedAt) - 1) :
            \E k \in (CountedAt[n] + 1)..(CountedAt[n + 1] - 1) : NormalizedBelow03(k)

\* YOLOPoseAnalyzer has counted three reps of a series that also holds a
\* sample between the thresholds after the first counted rep.
C17_Witness ==
    /\ rep_result # <<>>
    /\ rep_loop # None
    /\ analyzer = "yolo"
    /\ Len(CountedAt) = 3
    /\ \E k \in (CountedAt[1] + 1)..(CountedAt[2] - 1) :
           ~NormalizedBelow03(k) /\ ~NormalizedAbove07(k)

\* C18: once a rep has been counted, a later sample below 0.3 has been seen
\* (during the cooldown or after it) and the cooldown has run out, a sample
\* above 0.7 is counted.
C18_DropRearmsCounter ==
    [][ ( /\ rep_loop # None
          /\ rep_loop' # None
          /\ rep_loop'[1].i = rep_loop[1].i + 1
          /\ CountedAt # <<>>
          /\ rep_loop[1].st.cooldown = 0
          /\ NormalizedAbove07(rep_loop[1].i)
          /\ \E k \in (CountedAt[Len(CountedAt)] + 1)..(rep_loop[1].i - 1) :
                 NormalizedBelow03(k) )
        => rep_loop'[1].st.reps = rep_loop[1].st.reps + 1 ]_vars

\* int(fps * min_rep_duration) of the analyzer in play: min_rep_duration is
\* 1.0 in YOLOPoseAnalyzer and 1.5 in PoseAnalyzer.
MinRepFrames == IF analyzer = "yolo" THEN fps ELSE (3 * fps) \div 2

\* C19: a sample that meets a non-zero cooldown is never counted, the
\* indices of two counted reps differ by at least int(fps * min_rep_duration)
\* and the cooldown stays within 0..int(fps * min_rep_duration).
C19_CooldownSeparatesCounts ==
    rep_loop # None =>
        /\ rep_loop[1].st.cooldown \in 0..MinRepFrames
        /\ \A n \in 1..Len(rep_loop[1].cooldown_at) :
               rep_loop[1].cooldown_at[n] \in 0..MinRepFrames
        /\ \A n \in 1..Len(CountedAt) : rep_loop[1].cooldown_at[CountedAt[n] + 1] = 0
        /\ \A n \in 1..(Len(CountedAt) - 1) :
               CountedAt[n + 1] - CountedAt[n] >= MinRepFrames

\* PoseAnalyzer at 3 fps has counted two reps and skipped a sample above 0.7
\* that met a running cooldown.
C19_Witness ==
    /\ rep_result # <<>>
    /\ rep_loop # None
    /\ analyzer = "mediapipe"
    /\ fps = 3
    /\ Len(CountedAt) = 2
    /\ \E k \in 0..(Len(angle_history) - 1) :
           /\ NormalizedAbove07(k)
           /\ rep_loop[1].cooldown_at[k + 1] > 0
           /\ \A n \in 1..2 : CountedAt[n] # k

\* C20: YOLOPoseAnalyzer._count_reps returns rep_count - 1 durations when it
\* counted at least one rep, the k-th being (index of rep k+1 - index of
\* rep k) / fps.
C20_DurationsBetweenReps ==
    (rep_result # <<>> /\ rep_loop # None /\ analyzer = "yolo"
        /\ rep_result[1].rep_count >= 1)
    => /\ Len(rep_result[1].rep_durations) = rep_result[1].rep_count - 1
       /\ \A k \in 1..Len(rep_result[1].rep_durations) :
              /\ k + 1 <= Len(CountedAt)
              /\ rep_result[1].rep_durations[k][1] * fps
                     = (CountedAt[k + 1] - CountedAt[k]) * rep_result[1].rep_durations[k][2]


(***************************************************************************)
(* process_workout_video (twelvelabs_service.py): the pose analysis of the *)
(* detected segments in a thread pool.  Each worker analyzes one segment   *)
(* with its own PoseAnalyzer; the main thread takes the futures as they    *)
(* complete and applies each result to the future's exercise; after the    *)
(* pool is left the session activation is computed.                        *)
(***************************************************************************)
MaxSegments == 3

\* An ExerciseSegment as detect_exercises returns it (the fields the pipeline
\* reads or writes)
ExerciseSegment(name, start_sec, duration_sec, reps) ==
    [name |-> name, start_sec |-> start_sec, duration_sec |-> duration_sec,
     reps |-> reps, weight_kg |-> None, avg_quality_score |-> None,
     avg_joint_angles |-> None, form_feedback |-> <<>>]

\* The segments detected in the video
DetectedSegments ==
    <<ExerciseSegment("squat", 0, 60, 8),
      ExerciseSegment("bench press", 60, 45, 10),
      ExerciseSegment("deadlift", 120, 30, 5),
      ExerciseSegment("mystery move", 180, 40, 0)>>

\* The angles of a frame with a pose: the knees, the two elbows, and 90
\* degrees at the shoulders and hips.
JointFrame(knee, left_elbow, right_elbow) ==
    [name \in Range(JOINT_ANGLES) |->
        IF name \in {"left_knee", "right_knee"} THEN knee
        ELSE IF name = "left_elbow" THEN left_elbow
        ELSE IF name = "right_elbow" THEN right_elbow
        ELSE 90]

\* The frames read in which the movement is at its top
TopFrames == {3, 4, 11, 12}

FramesRead == 1..12

\* What the video shows from start_sec on: the frames read (a frame is its
\* joint angles, empty without a pose) and whether the representative frame
\* was captured.  A squat of two reps; a person standing still; nobody in
\* the picture; a press with uneven elbows in a clip that ends before its
\* middle frame.
Footage(start_sec) ==
    CASE start_sec = 0 ->
            [frames |-> [t \in FramesRead |->
                            JointFrame(IF t \in TopFrames THEN 170 ELSE 70, 170, 170)],
             frame_captured |-> TRUE]
      [] start_sec = 60 ->
            [frames |-> [t \in FramesRead |-> JointFrame(120, 120, 120)],
             frame_captured |-> TRUE]
      [] start_sec = 120 ->
            [frames |-> [t \in FramesRead |-> EmptyDict],
             frame_captured |-> TRUE]
      [] OTHER ->
            [frames |-> [t \in FramesRead |->
                            IF t \in TopFrames THEN JointFrame(100, 170, 170)
                            ELSE JointFrame(100, 80, 100)],
             frame_captured |-> FALSE]

\* _analyze_segment_worker: the metrics of PoseAnalyzer().analyze_segment, or
\* None when anything raised
analyze_segment_worker(start_sec, video_fps, raises) ==
    IF raises THEN None
    ELSE MediapipeAnalyzeSegment(Footage(start_sec).frames,
                                 Footage(start_sec).frame_captured, video_fps)

\* What the call estimate_weight_from_image(frame, name) can do: return a
\* weight (0 for none) or raise.
EstimatedWeights == {0, 60}

WeightOutcomes ==
    {[raised |-> TRUE, value |-> 0]}
        \cup {[raised |-> FALSE, value |-> w] : w \in EstimatedWeights}

\* ex.reps, ex.avg_quality_score and ex.avg_joint_angles as assigned from the
\* metrics
WithPoseMetrics(ex, m) ==
    [ex EXCEPT
        !.reps = IF m.rep_count > 0 THEN m.rep_count ELSE ex.reps,
        !.avg_quality_score = Some(Frac(m.avg_quality_score, 100)),
        !.avg_joint_angles =
            Some([elbow_min |-> DictGet(m.min_angles, "left_elbow", 0),
                  elbow_max |-> DictGet(m.max_angles, "left_elbow", 0),
                  knee_min |-> DictGet(m.min_angles, "left_knee", 0),
                  knee_max |-> DictGet(m.max_angles, "left_knee", 0)])]

\* if weight > 0: ex.weight_kg = weight; ex.avg_quality_score *= 1 + weight / 100
WithWeight(ex, weight) ==
    IF weight > 0
    THEN [ex EXCEPT !.weight_kg = Some(weight),
                    !.avg_quality_score =
                        Some(FMul(ex.avg_quality_score[1], Frac(100 + weight, 100)))]
    ELSE ex

\* for note in metrics.feedback: ex.form_feedback.append(FormFeedback(...))
WithFeedback(ex, feedback) ==
    [ex EXCEPT !.form_feedback =
        @ \o [n \in 1..Len(feedback) |->
                 [timestamp_sec |-> ex.start_sec, severity |-> "info", note |-> feedback[n]]]]

\* A variant of the application that resets the reps of an exercise whose
\* analysis gave no metrics.
ApplyMetricsClearingFailed(ex, result, outcome) ==
    IF result = None THEN [ex EXCEPT !.reps = 0]
    ELSE WithFeedback(WithPoseMetrics(ex, result[1]), result[1].feedback)

\* The body of the loop over as_completed, for the exercise of the future:
\* the try block applies the metrics; an exception leaves the block where it
\* is raised and is only printed.
ApplyMetrics(ex, result, outcome) ==
    IF result = None THEN ex
    ELSE LET m == result[1]
             assigned == WithPoseMetrics(ex, m)
         IN  IF m.representative_frame
             THEN IF outcome.raised THEN assigned
                  ELSE WithFeedback(WithWeight(assigned, outcome.value), m.feedback)
             ELSE WithFeedback(assigned, m.feedback)

\* A variant in which every future is taken for the first exercise.
FirstExercise(i) == 1

\* ex = future_to_exercise[future]: the futures are submitted in the order
\* of the exercises, future i for exercise i.
FutureExercise(i) == i

\* exercise_summary
ExerciseSummary(exs) ==
    [i \in 1..Len(exs) |->
        [name |-> exs[i].name, duration_sec |-> exs[i].duration_sec, reps |-> exs[i].reps,
         weight_kg |-> exs[i].weight_kg, avg_quality_score |-> exs[i].avg_quality_score]]

NotCalled == [called |-> FALSE, raised |-> FALSE, value |-> 0]

\* The detected exercises: segments of the video in its order, at most
\* MaxSegments of them.
RECURSIVE DetectedLists(_)
DetectedLists(n) ==
    IF n = 0 THEN {<<>>}
    ELSE DetectedLists(n - 1)
         \cup { Append(l, x) : <<l, x>> \in
                   { <<l, x>> \in DetectedLists(n - 1) \X Range(DetectedSegments) :
                        /\ Len(l) = n - 1
                        /\ \A k \in 1..Len(l) : l[k].start_sec < x.start_sec } }

VideoFps == {5, 30}

InitPipeline ==
    /\ video \in [file_path : BOOLEAN, fps : VideoFps, detected : DetectedLists(MaxSegments)]
    /\ pipeline_exercises = video.detected
    /\ futures = <<>>
    /\ pipeline_pc = "detected"
    /\ muscle_activation = None
    /\ RepIdle
    /\ MuscleIdle
    /\ SegmentIdle

\* The exercises are detected and the pool has not been entered.
BeforePool == pipeline_pc = "detected"

\* Future i is submitted and its worker has not returned.
WorkerRunning(i) == pipeline_pc = "pool" /\ futures[i].state = "pending"

\* Future i has completed and the main loop has not taken it.
FutureCompleted(i) == pipeline_pc = "pool" /\ futures[i].state = "done"

\* as_completed is exhausted: every future was taken.
PoolExhausted ==
    /\ pipeline_pc = "pool"
    /\ \A i \in 1..Len(futures) : futures[i].state = "handled"

\* if exercises and file_path: every segment is submitted to the pool
SubmitSegments ==
    /\ BeforePool
    /\ futures' = IF pipeline_exercises # <<>> /\ video.file_path
                  THEN [i \in 1..Len(pipeline_exercises) |->
                           [state |-> "pending", raised |-> FALSE, estimate |-> NotCalled]]
                  ELSE <<>>
    /\ pipeline_pc' = "pool"
    /\ UNCHANGED <<video, pipeline_exercises, muscle_activation>>
    /\ UNCHANGED repVars
    /\ UNCHANGED muscleVars
    /\ UNCHANGED segmentVars

\* A worker of the pool runs _analyze_segment_worker to its end.
WorkerCompletes(i, raises) ==
    /\ WorkerRunning(i)
    /\ futures' = [futures EXCEPT ![i] = [@ EXCEPT !.state = "done", !.raised = raises]]
    /\ UNCHANGED <<video, pipeline_exercises, pipeline_pc, muscle_activation>>
    /\ UNCHANGED repVars
    /\ UNCHANGED muscleVars
    /\ UNCHANGED segmentVars

\* metrics = future.result() of future i
FutureResult(i) ==
    analyze_segment_worker(video.detected[i].start_sec, video.fps, futures[i].raised)

\* One iteration of `for future in as_completed(future_to_exercise)`.
HandleCompleted(i, outcome) ==
    /\ FutureCompleted(i)
    /\ LET result == FutureResult(i)
           called == result # None /\ result[1].representative_frame
       IN  /\ pipeline_exercises' =
                  [pipeline_exercises EXCEPT ![FutureExercise(i)] =
                      ApplyMetrics(@, result, outcome)]
           /\ futures' = [futures EXCEPT ![i] =
                  [@ EXCEPT !.state = "handled",
                            !.estimate = IF called
                                         THEN [called |-> TRUE, raised |-> outcome.raised,
                                               value |-> outcome.value]
                                         ELSE NotCalled]]
    /\ UNCHANGED <<video, pipeline_pc, muscle_activation>>
    /\ UNCHANGED repVars
    /\ UNCHANGED muscleVars
    /\ UNCHANGED segmentVars

\* The pool is left when every future was taken; then
\* muscle_activation = calculate_session_activation(exercise_summary).
Aggregate ==
    /\ PoolExhausted
    /\ muscle_activation' =
           Some(calculate_session_activation(ExerciseSummary(pipeline_exercises)))
    /\ pipeline_pc' = "saving"
    /\ UNCHANGED <<video, pipeline_exercises, futures>>
    /\ UNCHANGED repVars
    /\ UNCHANGED muscleVars
    /\ UNCHANGED segmentVars

NextPipeline ==
    \/ SubmitSegments
    \/ \E i \in 1..Len(futures), raises \in BOOLEAN : WorkerCompletes(i, raises)
    \/ \E i \in 1..Len(futures), outcome \in WeightOutcomes : HandleCompleted(i, outcome)
    \/ Aggregate

SpecPipeline == InitPipeline /\ [][NextPipeline]_vars


\* The futures taken by the main loop so far
Handled == {i \in 1..Len(futures) : futures[i].state = "handled"}

\* The worker of future i raised, or its analysis returned no metrics.
WorkerFailed(i) == FutureResult(i) = None

\* C11: the quality score of every exercise lies within [0.5, 1.5]: as the
\* scorer returns it, and on the exercise once the pipeline has applied the
\* segment's metrics, whatever weight was estimated.
C11_QualityWithinBounds ==
    /\ \A i \in 1..Len(futures) :
           (futures[i].state # "pending" /\ ~WorkerFailed(i))
               => FutureResult(i)[1].avg_quality_score \in 50..150
    /\ \A i \in 1..Len(pipeline_exercises) :
           pipeline_exercises[i].avg_quality_score # None
               => /\ FLeq(<<1, 2>>, pipeline_exercises[i].avg_quality_score[1])
                  /\ FLeq(pipeline_exercises[i].avg_quality_score[1], <<3, 2>>)

\* Exercise i is as it was detected: nothing of the metrics was applied.
NothingApplied(i) == pipeline_exercises[i] = video.detected[i]

\* Exercise i carries the quality score, the joint angles and one feedback
\* entry for every note of its metrics.
EverythingApplied(i) ==
    /\ ~WorkerFailed(i)
    /\ pipeline_exercises[i].avg_quality_score # None
    /\ pipeline_exercises[i].avg_joint_angles # None
    /\ [n \in 1..Len(pipeline_exercises[i].form_feedback) |->
           pipeline_exercises[i].form_feedback[n].note]
           = [n \in 1..Len(video.detected[i].form_feedback) |->
                 video.detected[i].form_feedback[n].note]
                 \o FutureResult(i)[1].feedback

\* C14: the application of a finished segment's metrics is all-or-nothing:
\* the exercise of a taken future carries all of reps, quality score, joint
\* angles, weight and feedback, or is as it was before.
C14_AllOrNothing ==
    \A i \in Handled : NothingApplied(i) \/ EverythingApplied(i)

\* reps as the metrics of future i set them
RepsFromMetrics(i) ==
    IF FutureResult(i)[1].rep_count > 0 THEN FutureResult(i)[1].rep_count
    ELSE video.detected[i].reps

\* The steps the pipeline has still to take: submitting, two per running
\* worker (its completion and the main loop's turn), one per completed
\* future, and the aggregation.
StepsLeft ==
    CASE pipeline_pc = "detected" -> 2 * Len(pipeline_exercises) + 2
      [] pipeline_pc = "pool" ->
            2 * Cardinality({i \in 1..Len(futures) : futures[i].state = "pending"})
                + Cardinality({i \in 1..Len(futures) : futures[i].state = "done"}) + 1
      [] OTHER -> 0

\* Some step of the pipeline can be taken.
CanStep ==
    \/ BeforePool
    \/ \E i \in 1..Len(futures) : WorkerRunning(i) \/ FutureCompleted(i)
    \/ PoolExhausted

\* The exercises of the taken futures: a failed one is as detected, any
\* other one carries the reps, quality score and joint angles of its own
\* metrics.
FailuresSkipped ==
    \A i \in Handled :
        IF WorkerFailed(i) THEN NothingApplied(i)
        ELSE /\ pipeline_exercises[i].reps = RepsFromMetrics(i)
             /\ pipeline_exercises[i].avg_quality_score # None
             /\ pipeline_exercises[i].avg_joint_angles # None

\* C15: when the pose analysis of a segment fails (its worker raises or
\* returns no metrics), the pipeline still finishes: until the session
\* activation is stored a step can be taken and every step leaves fewer
\* steps to take; the failed exercise keeps its prior values, the metrics of
\* the other segments are applied to their own exercise, and the session
\* activation is computed over all exercises.
C15_FailedSegmentIsSkipped ==
    /\ [](pipeline_pc # "saving" => CanStep)
    /\ [][StepsLeft' < StepsLeft]_vars
    /\ []FailuresSkipped
    /\ [](pipeline_pc = "saving" =>
              /\ Handled = 1..Len(futures)
              /\ Len(pipeline_exercises) = Len(video.detected)
              /\ muscle_activation =
                     Some(calculate_session_activation(ExerciseSummary(pipeline_exercises))))

\* The pipeline has finished a video of three segments: the worker of the
\* first raised, the second was applied, the third returned no metrics.
C15_Witness ==
    /\ pipeline_pc = "saving"
    /\ muscle_activation # None
    /\ Len(futures) = 3
    /\ futures[1].raised
    /\ ~WorkerFailed(2) /\ pipeline_exercises[2].avg_quality_score # None
    /\ ~futures[3].raised /\ WorkerFailed(3)
    /\ NothingApplied(1) /\ NothingApplied(3)

\* What exercise i is once its future was taken: a function of the detected
\* exercise, of what its worker did and of what the weight estimate did.
ExpectedExercise(i) ==
    LET result == FutureResult(i)
        assigned == WithPoseMetrics(video.detected[i], result[1])
    IN  IF result = None THEN video.detected[i]
        ELSE IF ~futures[i].estimate.called THEN WithFeedback(assigned, result[1].feedback)
        ELSE IF futures[i].estimate.raised THEN assigned
        ELSE WithFeedback(WithWeight(assigned, futures[i].estimate.value),
                          result[1].feedback)

\* C16: whatever the order in which the workers complete, every exercise is
\* the result of its own worker alone (an exercise whose future has not been
\* taken is untouched), the session activation is computed only when every
\* worker has completed and its result was taken, and it is the activation
\* of these per-exercise results.
C16_CompletionOrderIrrelevant ==
    /\ Len(pipeline_exercises) = Len(video.detected)
    /\ \A i \in 1..Len(pipeline_exercises) :
           pipeline_exercises[i] = IF i \in Handled THEN ExpectedExercise(i)
                                   ELSE video.detected[i]
    /\ muscle_activation # None =>
           /\ \A i \in 1..Len(futures) : futures[i].state = "handled"
           /\ muscle_activation =
                  Some(calculate_session_activation(ExerciseSummary(
                           [i \in 1..Len(pipeline_exercises) |->
                               IF i \in Handled THEN ExpectedExercise(i)
                               ELSE video.detected[i]])))

\* The third worker completed first: its result is on the third exercise
\* while the first worker has not completed and the second's result waits.
C16_Witness ==
    /\ pipeline_pc = "pool"
    /\ Len(futures) = 3
    /\ futures[1].state = "pending"
    /\ futures[2].state = "done"
    /\ futures[3].state = "handled"
    /\ pipeline_exercises[3].avg_quality_score # None
    /\ pipeline_exercises[1] = video.detected[1]

(***************************************************************************)
(* Specification of the modifiers: one exercise with a variation text and  *)
(* a knee range of motion is mapped by get_activation.                     *)
(***************************************************************************)
VariationNames ==
    {"barbell squat", "bench press", "Pull-Up", "deadlift", "lat pulldown", "plank",
     "zzz_not_an_exercise"}

\* Variation texts; "" stands for no variation
VariationTexts ==
    {"", "narrow stance high bar low bar", "narrow close grip", "Wide Grip",
     "wide grip, close grip", "deep", "sumo", "incline", "chin", "wide stance, deep"}

\* pose_metrics: None, or the minimum of knee_rom
KneeMinima == {None, Some(65), Some(85), Some(105)}

InitVariation == RepIdle /\ MuscleIdle /\ SegmentIdle /\ PipelineIdle

VariationGetActivation ==
    \E n \in VariationNames, v \in VariationTexts, k \in KneeMinima :
        /\ exercises = <<>>
        /\ GetActivation([name |-> n, variation |-> v, pose_metrics |-> k,
                          duration_sec |-> 60, reps |-> 10])

NextVariation == VariationGetActivation

SpecVariation == InitVariation /\ [][NextVariation]_vars

\* The names of the modifiers a catalog entry defines
ModifierNames(entry) == {entry.modifiers[i].modifier : i \in 1..Len(entry.modifiers)}

\* The base weight of a muscle in a catalog entry, 0 if it has none
BaseWeight(entry, muscle) ==
    LET base == entry.primary \o entry.secondary
        at == {i \in 1..Len(base) : base[i][1] = muscle}
    IN  IF at = {} THEN 0 ELSE base[CHOOSE i \in at : TRUE][2]

\* The delta of one modifier of the entry for a muscle, 0 if it has none
DeltaOf(entry, modifier, muscle) ==
    LET deltas == ModifierDeltas(entry.modifiers, modifier)
        at == {i \in 1..Len(deltas) : deltas[i][1] = muscle}
    IN  IF at = {} THEN 0 ELSE deltas[CHOOSE i \in at : TRUE][2]

\* The sum of the deltas for a muscle over a list of modifiers of the entry
RECURSIVE DeltaSum(_, _, _)
DeltaSum(entry, modifiers, muscle) ==
    IF modifiers = <<>> THEN 0
    ELSE DeltaOf(entry, Head(modifiers), muscle) + DeltaSum(entry, Tail(modifiers), muscle)

\* The muscles an entry or one of the listed modifiers names
MusclesNamed(entry, modifiers) ==
    {entry.primary[i][1] : i \in 1..Len(entry.primary)}
    \cup {entry.secondary[i][1] : i \in 1..Len(entry.secondary)}
    \cup UNION { {ModifierDeltas(entry.modifiers, modifiers[j])[i][1] :
                     i \in 1..Len(ModifierDeltas(entry.modifiers, modifiers[j]))} :
                 j \in 1..Len(modifiers) }

ClampToUnit(v) == IF v < 0 THEN 0 ELSE IF v > 100 THEN 100 ELSE v

\* C21: for a recognized exercise, only modifiers that the matched catalog
\* entry defines are applied, and each muscle's final activation is the base
\* weight (0 if the muscle has none) plus the sum of the deltas of all applied
\* modifiers, clamped to [0,1] once, after the sum.
C21_ClampedOnceAfterSum ==
    \A i \in 1..Len(activations) :
        activations[i].confidence = 100 =>
            LET a == activations[i]
                entry == Entry(a.matched_exercise)
            IN  /\ Range(a.modifiers_applied) \subseteq ModifierNames(entry)
                /\ DOMAIN a.activation = MusclesNamed(entry, a.modifiers_applied)
                /\ \A k \in DOMAIN a.activation :
                       a.activation[k] =
                           ClampToUnit(BaseWeight(entry, k)
                                       + DeltaSum(entry, a.modifiers_applied, k))

\* A barbell squat with narrow stance, high bar and low bar: the quads pass
\* 1.0 on the way (0.9 + 0.1 + 0.05 - 0.05) and end at 1.0; the text names no
\* modifier the entry lacks.
C21_Witness ==
    /\ Len(activations) = 1
    /\ exercises[1].name = "barbell squat"
    /\ exercises[1].variation = "narrow stance high bar low bar"
    /\ exercises[1].pose_metrics = None
    /\ activations[1].modifiers_applied = <<"narrow_stance", "high_bar", "low_bar">>
    /\ activations[1].activation["quads"] = 100

(***************************************************************************)
(* The weight of an exercise in the two aggregators (SpecWorkout)          *)
(***************************************************************************)
\* The value the catalog entry of muscle_map.py gives a muscle
EntryValue(muscle_data, muscle) ==
    ItemsSum(muscle_data.primary, muscle) + ItemsSum(muscle_data.secondary, muscle)

\* C22: every recognized exercise has a strictly positive aggregation weight
\* and so adds its activation to the session totals, in aggregate_workout and
\* in calculate_session_activation: every muscle it activates has a positive
\* total, also when its duration or its reps are zero.
C22_RecognizedExerciseCounts ==
    /\ workout_totals # None =>
           \A i \in 1..Len(activations) :
               activations[i].confidence = 100 =>
                   /\ ExerciseWeight(activations[i]) > 0
                   /\ \A k \in DOMAIN activations[i].activation \cap Range(MAPPER_MUSCLE_GROUPS) :
                          activations[i].activation[k] > 0 =>
                              FLess(FZero, workout_totals[1][k])
    /\ session_activation # None =>
           \A i \in 1..Len(exercises) :
               get_muscle_activation(exercises[i].name) # None =>
                   /\ SessionWeight(exercises[i]) > 0
                   /\ \A m \in Range(MUSCLE_GROUPS) :
                          EntryValue(get_muscle_activation(exercises[i].name)[1], m) > 0 =>
                              FLess(FZero, session_activation[1][m])

(***************************************************************************)
(* The quality score of an analysed segment (SpecSegment)                  *)
(***************************************************************************)
\* The range-of-motion delta of the rule, in hundredths: for squat-pattern
\* exercises +0.2 below 80 degrees of average minimum knee angle and -0.2
\* above 115; for press/curl exercises +0.1 above 165 degrees of average
\* maximum elbow angle and -0.15 below 140.
RuleRomDelta(exercise_lower, avg_knee_min, avg_elbow_max) ==
    (IF Contains(exercise_lower, "squat") \/ Contains(exercise_lower, "lunge")
     THEN IF FLess(avg_knee_min, <<80, 1>>) THEN 20
          ELSE IF FLess(<<115, 1>>, avg_knee_min) THEN -20
          ELSE 0
     ELSE 0)
    + (IF Contains(exercise_lower, "press") \/ Contains(exercise_lower, "curl")
       THEN IF FLess(<<165, 1>>, avg_elbow_max) THEN 10
            ELSE IF FLess(avg_elbow_max, <<140, 1>>) THEN -15
            ELSE 0
       ELSE 0)

\* +0.1 for symmetry > 0.9, -0.15 for symmetry < 0.7
RuleSymmetryDelta(symmetry_score) ==
    IF FLess(<<9, 10>>, symmetry_score) THEN 10
    ELSE IF FLess(symmetry_score, <<7, 10>>) THEN -15
    ELSE 0

\* +0.05 for tempo > 0.8, -0.1 for tempo < 0.5
RuleTempoDelta(spread_sq) ==
    IF TempoAbove08(spread_sq) THEN 5
    ELSE IF TempoBelow05(spread_sq) THEN -10
    ELSE 0

RuleClamp(score) == IF score < 50 THEN 50 ELSE IF score > 150 THEN 150 ELSE score

\* C23: the quality multiplier of an analysed segment is
\* clamp(1.0 + ROM delta + symmetry delta + tempo delta, 0.5, 1.5) with the
\* ROM delta of the matching exercise family (knee: < 80 gives +0.2, > 115
\* gives -0.2; elbow: > 165 gives +0.1, < 140 gives -0.15), the symmetry
\* delta +0.1 / -0.15 and the tempo delta +0.05 / -0.1.
C23_QualityFollowsRule ==
    (segment_pc = "analyzed" /\ metrics # None) =>
        metrics[1].avg_quality_score =
            RuleClamp(100
                      + RuleRomDelta(Lower(segment.exercise_name),
                                     AvgKneeMin(metrics[1].min_angles),
                                     AvgElbowMax(metrics[1].max_angles))
                      + RuleSymmetryDelta(metrics[1].symmetry_score)
                      + RuleTempoDelta(metrics[1].tempo_consistency))

(***************************************************************************)
(* Fuzzy name resolution (SpecLookup)                                      *)
(***************************************************************************)
\* The characters of the catalog's keys in the order Python compares them
Alphabet == " -0123456789_abcdefghijklmnopqrstuvwxyz"

CharRank(c) ==
    LET at == {i \in 1..Len(Alphabet) : CharAt(Alphabet, i) = c}
    IN  IF at = {} THEN 0 ELSE CHOOSE i \in at : TRUE

\* a < b for two strings, lexicographically
RECURSIVE LexLess(_, _)
LexLess(a, b) ==
    IF b = "" THEN FALSE
    ELSE IF a = "" THEN TRUE
    ELSE IF CharAt(a, 1) = CharAt(b, 1) THEN LexLess(Tail(a), Tail(b))
    ELSE CharRank(CharAt(a, 1)) < CharRank(CharAt(b, 1))

\* Of a non-empty set of keys the longest, the lexicographically first of the
\* longest
LongestKey(keys) ==
    CHOOSE k \in keys :
        \A other \in keys \ {k} :
            \/ Len(other) < Len(k)
            \/ Len(other) = Len(k) /\ LexLess(k, other)

\* The entry a set of matching aliases of alias_map resolves to by
\* longest-alias-wins
EntryOfLongestAlias(matching) ==
    LET key == LongestKey({alias_map[i].alias : i \in matching})
    IN  alias_map[CHOOSE i \in matching : alias_map[i].alias = key].exercise

\* The aliases in a substring relation with the name, and those with the
\* largest token overlap
ContainmentMatches(normalized) ==
    {i \in 1..Len(alias_map) : \/ Contains(alias_map[i].alias, normalized)
                               \/ Contains(normalized, alias_map[i].alias)}

OverlapMatches(normalized) ==
    LET overlap == WordOverlap(normalized)
    IN  {i \in 1..Len(alias_map) :
            /\ overlap[i] >= 1
            /\ \A j \in 1..Len(alias_map) : overlap[j] <= overlap[i]}

\* The keys of muscle_map.py in a substring relation with the name
SessionKeyMatches(normalized) ==
    {i \in 1..Len(EXERCISE_MUSCLE_MAP) :
        \/ Contains(normalized, EXERCISE_MUSCLE_MAP[i].key)
        \/ Contains(EXERCISE_MUSCLE_MAP[i].key, normalized)}

\* C24: a name that equals no alias is resolved to the entry of the longest
\* alias among those it matches by substring containment (among those tied on
\* token overlap if it matches none), ties broken lexicographically; so a name
\* containing "bulgarian split squat" resolves to that entry, not to the entry
\* with alias "squat".  The same for the keys of get_muscle_activation.
C24_LongestAliasWins ==
    \A i \in 1..Len(exercises) :
        LET normalized == normalize_name(exercises[i].name)
            key == normalize_exercise_name(exercises[i].name)
        IN  /\ (/\ \A j \in 1..Len(alias_map) : alias_map[j].alias # normalized
                /\ ContainmentMatches(normalized) # {})
                   => activations[i].matched_exercise =
                          EntryOfLongestAlias(ContainmentMatches(normalized))
            /\ (/\ \A j \in 1..Len(alias_map) : alias_map[j].alias # normalized
                /\ ContainmentMatches(normalized) = {}
                /\ OverlapMatches(normalized) # {})
                   => activations[i].matched_exercise =
                          EntryOfLongestAlias(OverlapMatches(normalized))
            /\ (/\ \A j \in 1..Len(EXERCISE_MUSCLE_MAP) : EXERCISE_MUSCLE_MAP[j].key # key
                /\ SessionKeyMatches(key) # {})
                   => get_muscle_activation(exercises[i].name) =
                          Some(EXERCISE_MUSCLE_MAP[
                                   CHOOSE j \in SessionKeyMatches(key) :
                                       EXERCISE_MUSCLE_MAP[j].key =
                                           LongestKey({EXERCISE_MUSCLE_MAP[k].key :
                                                          k \in SessionKeyMatches(key)})])

(***************************************************************************)
(* Category totals of the balance analyses (SpecWorkout)                   *)
(***************************************************************************)
\* The mean of the values d gives the muscles of the set S, a muscle without
\* value counting 0
MeanOver(d, S) == FDivInt(SetSum(d, S), Cardinality(S))

SessionCategory(c) ==
    CASE c = "push" -> PUSH_MUSCLES
      [] c = "pull" -> PULL_MUSCLES
      [] c = "legs" -> LEG_MUSCLES
      [] c = "core" -> CORE_MUSCLES

\* C25: each category total (push, pull, legs, core) that a balance analysis
\* reports is the mean of the normalized values of the category's member
\* muscles, and so within [0,1].
C25_CategoryTotalIsMean ==
    /\ analysis # None =>
           \A c \in {"push", "pull", "legs", "core"} :
               /\ analysis[1].category_totals[c] =
                      MeanOver(workout_totals[1], Range(CategoryMuscles(c)))
               /\ InUnitInterval(analysis[1].category_totals[c])
    /\ (balance # None /\ balance[1].status = "analyzed") =>
           \A c \in {"push", "pull", "legs", "core"} :
               /\ balance[1].category_balance[c] =
                      MeanOver(balance[1].muscle_totals, SessionCategory(c))
               /\ InUnitInterval(balance[1].category_balance[c])

(***************************************************************************)
(* Asymmetry feedback of an analysed segment (SpecSegment)                 *)
(***************************************************************************)
FeedbackPairs == {"elbow", "knee", "shoulder"}

\* |mean of the left side - mean of the right side| of a pair
PairDifference(m, p) ==
    FAbs(FSub(m.avg_angles["left_" \o p], m.avg_angles["right_" \o p]))

BothSidesSampled(m, p) ==
    m.joint_angles["left_" \o p] # <<>> /\ m.joint_angles["right_" \o p] # <<>>

StartsWith(s, prefix) == Len(s) >= Len(prefix) /\ SubSeq(s, 1, Len(prefix)) = prefix

\* The feedback has an asymmetry item for the joint
HasAsymmetryItem(feedback, p) ==
    \E i \in 1..Len(feedback) : StartsWith(feedback[i], "Asymmetry detected in " \o p)

\* The feedback has the asymmetry item for the joint with the difference
HasAsymmetryItemWith(feedback, p, diff) ==
    \E i \in 1..Len(feedback) :
        feedback[i] = "Asymmetry detected in " \o p \o " movement ("
                          \o Format0f(diff) \o " deg difference)."

\* C26: for every pair of elbow, knee and shoulder whose two sides have
\* samples and whose mean angles differ by more than 15 degrees, the feedback
\* of the segment has an asymmetry item for the joint with the difference; it
\* has none for a pair that differs by 15 degrees or less.
C26_AsymmetryReported ==
    (segment_pc = "analyzed" /\ metrics # None) =>
        \A p \in FeedbackPairs :
            /\ (BothSidesSampled(metrics[1], p)
                /\ FLess(<<15, 1>>, PairDifference(metrics[1], p)))
                   => HasAsymmetryItemWith(metrics[1].feedback, p,
                                           PairDifference(metrics[1], p))
            /\ (BothSidesSampled(metrics[1], p)
                /\ FLeq(PairDifference(metrics[1], p), <<15, 1>>))
                   => ~HasAsymmetryItem(metrics[1].feedback, p)

(***************************************************************************)
(* Names that are empty after normalization (SpecLookup)                   *)
(***************************************************************************)
EmptyAfterNormalization(name) == normalize_name(name) = ""

\* C27: an exercise name that is empty after normalization resolves to no
\* catalog entry: get_activation returns the unknown sentinel with confidence
\* 0, get_muscle_activation returns None, and the exercise adds nothing to the
\* session totals.
C27_EmptyNameUnresolved ==
    \A i \in 1..Len(exercises) :
        EmptyAfterNormalization(exercises[i].name) =>
            /\ activations[i].matched_exercise = "unknown"
            /\ activations[i].confidence = 0
            /\ get_muscle_activation(exercises[i].name) = None
            /\ \A m \in Range(MUSCLE_GROUPS) :
                   calculate_session_activation(<<exercises[i]>>)[m] = FZero

(***************************************************************************)
(* Modifiers applied more than once (SpecVariation)                        *)
(***************************************************************************)
NoDuplicates(s) == \A i, j \in 1..Len(s) : i # j => s[i] # s[j]

\* The sum of the deltas for a muscle over a set of modifiers of the entry,
\* each counted once
RECURSIVE DeltaSumOnce(_, _, _)
DeltaSumOnce(entry, modifiers, muscle) ==
    IF modifiers = {} THEN 0
    ELSE LET modifier == CHOOSE x \in modifiers : TRUE
         IN  DeltaOf(entry, modifier, muscle)
             + DeltaSumOnce(entry, modifiers \ {modifier}, muscle)

\* C28: get_activation applies each named modifier at most once per call:
\* modifiers_applied has no duplicates and each applied modifier's deltas are
\* added once, also when several keywords of the variation text or the text
\* and the pose signal imply the same modifier.
C28_ModifierAppliedOnce ==
    \A i \in 1..Len(activations) :
        activations[i].confidence = 100 =>
            LET a == activations[i]
                entry == Entry(a.matched_exercise)
            IN  /\ NoDuplicates(a.modifiers_applied)
                /\ \A k \in DOMAIN a.activation :
                       a.activation[k] =
                           ClampToUnit(BaseWeight(entry, k)
                                       + DeltaSumOnce(entry, Range(a.modifiers_applied), k))

(***************************************************************************)
(* Joints without samples in the quality score (SpecSegment)               *)
(***************************************************************************)
\* The sides of a joint that have samples in the segment
SampledSides(m, joint) ==
    {k \in {"left_" \o joint, "right_" \o joint} : m.joint_angles[k] # <<>>}

\* The mean over the sampled sides of the extremum of a joint
SampledMean(m, extrema, joint) ==
    FDivInt(SetSum([k \in SampledSides(m, joint) |-> <<extrema[k], 1>>],
                   SampledSides(m, joint)),
            Cardinality(SampledSides(m, joint)))

\* The knee delta of the score from the knees that have samples, none without
SampledKneeDelta(m, exercise_lower) ==
    IF SampledSides(m, "knee") = {} THEN 0
    ELSE KneeDepthDelta(exercise_lower, SampledMean(m, m.min_angles, "knee"))

\* The elbow delta of the score from the elbows that have samples, none without
SampledElbowDelta(m, exercise_lower) ==
    IF SampledSides(m, "elbow") = {} THEN 0
    ELSE ElbowExtensionDelta(exercise_lower, SampledMean(m, m.max_angles, "elbow"))

\* C29: a joint without angle sample in the segment adds no ROM bonus or
\* penalty to the quality score: the score is that of the knees and elbows
\* that have samples, a segment without visible elbow gets no elbow delta, and
\* a segment with one knee missing is scored on the visible knee.
C29_NoSampleNoRomDelta ==
    (segment_pc = "analyzed" /\ metrics # None) =>
        metrics[1].avg_quality_score =
            ClampQuality(100
                         + SampledKneeDelta(metrics[1], Lower(segment.exercise_name))
                         + SampledElbowDelta(metrics[1], Lower(segment.exercise_name))
                         + SymmetryDelta(metrics[1].symmetry_score)
                         + TempoDelta(metrics[1].tempo_consistency))

(***************************************************************************)
(* One-sided sessions in the balance analyses (SpecBalance)                *)
(***************************************************************************)
\* C30: the balance analysis reports a push/pull imbalance whenever exactly
\* one of the two category totals is zero: push-dominant for a positive push
\* total with a zero pull total, pull-dominant for a positive pull total with
\* a zero push total.
C30_OneSidedIsImbalance ==
    /\ analysis # None =>
           LET push == analysis[1].category_totals["push"]
               pull == analysis[1].category_totals["pull"]
           IN  /\ (FLess(FZero, push) /\ pull = FZero) => PushDominant(analysis[1])
               /\ (FLess(FZero, pull) /\ push = FZero) => PullDominant(analysis[1])
    /\ balance # None =>
           LET push == balance[1].category_balance["push"]
               pull == balance[1].category_balance["pull"]
           IN  /\ (FLess(FZero, push) /\ pull = FZero) => PushHeavy(balance[1])
               /\ (FLess(FZero, pull) /\ push = FZero) => PullHeavy(balance[1])

====
